---- MODULE Spec2Model ----
(***************************************************************************)
(* Minefield Mahjong match server: the game state machine of               *)
(* src/server/game.py (class Game), driven by its public entry points      *)
(* start, on_hand, on_discard and beat.  The callback is the one of        *)
(* GameTestCase: it appends every outbound event to `messages`.            *)
(*                                                                         *)
(* The rules engine game.py imports (rules.waits, rules.best_hand,         *)
(* Hand.limit, rules.BASE_POINTS) is not part of src/rules/rules.py; its   *)
(* results enter the handlers as inputs drawn from the ranges the          *)
(* specification gives them (a set of tiles, a limit code 0..5).           *)
(***************************************************************************)
EXTENDS Integers, Sequences, FiniteSets, TLC

(***************************************************************************)
(* Sizes.  The program's values are in parentheses; the model is checked   *)
(* on a scaled-down table.                                                 *)
(***************************************************************************)
\* number of distinct tiles in rules.ALL_TILES (34)
NKINDS == 3
\* tiles dealt to each seat (game.py PLAYER_TILES = 34)
PLAYER_TILES == 4
\* tiles of a chosen hand (the literal 13 of Game.on_hand)
HAND_SIZE == 2
\* discards per seat before the exhaustive draw (game.py DISCARDS = 17)
DISCARDS == 2
\* seconds (Game.HAND_TIME_LIMIT = 180)
HAND_TIME_LIMIT == 2
\* seconds (Game.DISCARD_TIME_LIMIT = 15)
DISCARD_TIME_LIMIT == 1
\* seconds (Game.EXTRA_TIME = 10)
EXTRA_TIME == 1
\* handler calls made on a game that is already finished
MaxLate == 1

\* copies of each tile in the deck: TILES = rules.ALL_TILES * 4
COPIES == 4

Seats == {0, 1}
Tiles == 1..NKINDS
ALL_TILES == [i \in 1..NKINDS |-> i]

\* no hand chosen yet (None); a chosen hand has HAND_SIZE > 0 tiles
None == <<>>
\* no pending move (None)
NoMove == [move_type |-> "none", deadline |-> 0]

\* the clock of an unfinished game stays below this
MaxT == HAND_TIME_LIMIT + EXTRA_TIME + 2 * DISCARDS * (DISCARD_TIME_LIMIT + EXTRA_TIME)

Range(s) == {s[i] : i \in 1..Len(s)}

\* TILES = rules.ALL_TILES * 4, unshuffled (DEBUG)
TILES == [i \in 1..(NKINDS * COPIES) |-> ALL_TILES[((i - 1) % NKINDS) + 1]]
\* one shuffled deck: the same tiles grouped by kind
SortedTiles == [i \in 1..(NKINDS * COPIES) |-> ((i - 1) \div COPIES) + 1]
\* the decks random.shuffle may leave (two of the permutations)
Shuffles == {TILES, SortedTiles}

VARIABLES
    started,        \* Game.start() has run
    east,           \* Game.east
    initial_tiles,  \* Game.initial_tiles
    tiles,          \* Game.tiles
    dora_ind,       \* Game.dora_ind
    uradora_ind,    \* Game.uradora_ind
    hand,           \* Game.hand
    waits,          \* Game.waits
    discards,       \* Game.discards
    t,              \* Game.t
    moves,          \* Game.moves
    finished,       \* Game.finished
    messages,       \* what the callback received, in order
    raised,         \* an AssertionError left a handler
    opened,         \* per seat: Game.t when its pending move was opened
    late,           \* handler calls made while finished
    waiting_players, \* GameServer.waiting_players (the players advertised)
    rooms,          \* every Room created so far, by id; GameServer.rooms is
                    \* the rooms with `listed` set, in this order
    players,        \* the SocketPlayer objects: room, idx, the state of
                    \* their connection, and what the last step sent to them
    server_t,       \* GameServer.t
    escaped,        \* an exception left a method of Room or GameServer
    rules_tiles,    \* the tiles argument of all_hands
    rules_wait,     \* the wait argument of all_hands
    rules_options,  \* the options argument of all_hands
    rules_hands,    \* the Hand objects all_hands yielded, in order, each
                    \* with what its all_yaku() returns
    rules_done      \* all_hands has been called and consumed

\* the variables of one Game driven directly
game_vars == <<started, east, initial_tiles, tiles, dora_ind, uradora_ind, hand,
               waits, discards, t, moves, finished, messages, raised, opened,
               late>>

\* the variables of the rooms and of the server around them
server_vars == <<waiting_players, rooms, players, server_t, escaped>>

\* the variables of the rules engine called on its own
rules_vars == <<rules_tiles, rules_wait, rules_options, rules_hands, rules_done>>

vars == <<game_vars, server_vars, rules_vars>>

\* the Game object as one value, so that a handler composes its calls
Self == [east |-> east, initial_tiles |-> initial_tiles, tiles |-> tiles,
         dora_ind |-> dora_ind, uradora_ind |-> uradora_ind, hand |-> hand,
         waits |-> waits, discards |-> discards, t |-> t, moves |-> moves,
         finished |-> finished, messages |-> messages, raised |-> raised,
         opened |-> opened]

Store(g) ==
    /\ east' = g.east
    /\ initial_tiles' = g.initial_tiles
    /\ tiles' = g.tiles
    /\ dora_ind' = g.dora_ind
    /\ uradora_ind' = g.uradora_ind
    /\ hand' = g.hand
    /\ waits' = g.waits
    /\ discards' = g.discards
    /\ t' = g.t
    /\ moves' = g.moves
    /\ finished' = g.finished
    /\ messages' = g.messages
    /\ raised' = g.raised
    /\ opened' = g.opened

\* a player that has not connected
NoPlayer == [room |-> 0, idx |-> 0, messages |-> <<>>, link |-> "open"]

\* the rules engine is not called on its own
NoRules ==
    /\ rules_tiles = <<>>
    /\ rules_wait = <<>>
    /\ rules_options = [keys |-> {}, fanpai_winds |-> <<>>]
    /\ rules_hands = <<>>
    /\ rules_done = FALSE

\* no game is driven directly
NoGame ==
    /\ started = FALSE
    /\ east = 0
    /\ initial_tiles = [i \in Seats |-> <<>>]
    /\ tiles = [i \in Seats |-> <<>>]
    /\ dora_ind = 0
    /\ uradora_ind = 0
    /\ hand = [i \in Seats |-> None]
    /\ waits = [i \in Seats |-> {}]
    /\ discards = [i \in Seats |-> <<>>]
    /\ t = 0
    /\ moves = [i \in Seats |-> NoMove]
    /\ finished = FALSE
    /\ messages = <<>>
    /\ raised = FALSE
    /\ opened = [i \in Seats |-> 0]
    /\ late = 0

\* no server runs around the game
NoServer ==
    /\ waiting_players = {}
    /\ rooms = <<>>
    /\ players = <<>>
    /\ server_t = 0
    /\ escaped = FALSE

(***************************************************************************)
(* Game.__init__                                                           *)
(***************************************************************************)
Init ==
    \E all_tiles \in Shuffles, e \in Seats :
        /\ started = FALSE
        /\ east = e
        /\ initial_tiles = [i \in Seats |->
               SubSeq(all_tiles, i * PLAYER_TILES + 1, (i + 1) * PLAYER_TILES)]
        /\ tiles = [i \in Seats |->
               SubSeq(all_tiles, i * PLAYER_TILES + 1, (i + 1) * PLAYER_TILES)]
        /\ dora_ind = all_tiles[2 * PLAYER_TILES + 1]
        /\ uradora_ind = all_tiles[2 * PLAYER_TILES + 2]
        /\ hand = [i \in Seats |-> None]
        /\ waits = [i \in Seats |-> {}]
        /\ discards = [i \in Seats |-> <<>>]
        /\ t = 0
        /\ moves = [i \in Seats |-> NoMove]
        /\ finished = FALSE
        /\ messages = <<>>
        /\ raised = FALSE
        /\ opened = [i \in Seats |-> 0]
        /\ late = 0
        /\ NoServer
        /\ NoRules

(***************************************************************************)
(* Helpers of the handlers                                                 *)
(***************************************************************************)
\* self.callback(to_player, msg_type, **msg_data)
callback(g, to_player, msg_type, msg_data) ==
    [g EXCEPT !.messages =
        Append(@, [to |-> to_player, type |-> msg_type, data |-> msg_data])]

NoData == [none |-> TRUE]

\* Game.phase
phase(g) ==
    IF ~(g.hand[0] # None /\ g.hand[1] # None) THEN 1
    ELSE IF ~g.finished THEN 2
    ELSE 3

\* player_turn with East to move whatever the piles are
player_turn_east(g) == g.east

\* player_turn with the seats swapped: West opens the round
player_turn_west(g) ==
    IF Len(g.discards[0]) = Len(g.discards[1]) THEN 1 - g.east ELSE g.east

\* Game.player_turn
player_turn(g) ==
    IF Len(g.discards[0]) = Len(g.discards[1]) THEN g.east ELSE 1 - g.east

\* abort that leaves the pending moves in place
abort_keep_moves(g, culprit, description) ==
    LET d == [culprit |-> culprit, description |-> description]
    IN  callback(callback([g EXCEPT !.finished = TRUE], 0, "abort", d),
                 1, "abort", d)

\* Game.abort
abort(g, culprit, description) ==
    LET d == [culprit |-> culprit, description |-> description]
        g0 == callback(g, 0, "abort", d)
        g1 == callback([g0 EXCEPT !.finished = TRUE], 1, "abort", d)
    IN  [g1 EXCEPT !.finished = TRUE, !.moves = [i \in Seats |-> NoMove]]

\* send_move sending the whole time to the deadline, the grace window included
send_move_grace(g, player) ==
    IF g.moves[player] = NoMove THEN g
    ELSE callback(g, player, "start_move",
             [move_type |-> g.moves[player].move_type,
              time_limit |-> g.moves[player].deadline - g.t])

\* Game.send_move
send_move(g, player) ==
    IF g.moves[player] = NoMove THEN g
    ELSE callback(g, player, "start_move",
             [move_type |-> g.moves[player].move_type,
              time_limit |-> g.moves[player].deadline - g.t - EXTRA_TIME])

\* start_move with a deadline that does not count from the game clock
start_move_fixed(g, player, move_type, time_limit) ==
    IF g.moves[player] # NoMove THEN [g EXCEPT !.raised = TRUE]
    ELSE send_move([g EXCEPT
             !.moves[player] = [move_type |-> move_type,
                                deadline |-> time_limit + EXTRA_TIME],
             !.opened[player] = g.t], player)

\* Game.start_move; a failed assert raises and leaves the state as it was
start_move(g, player, move_type, time_limit) ==
    IF g.moves[player] # NoMove THEN [g EXCEPT !.raised = TRUE]
    ELSE send_move([g EXCEPT
             !.moves[player] = [move_type |-> move_type,
                                deadline |-> g.t + time_limit + EXTRA_TIME],
             !.opened[player] = g.t], player)

\* end_move that tells the player but keeps the move pending
end_move_keep(g, player) == callback(g, player, "end_move", NoData)

\* Game.end_move
end_move(g, player) ==
    callback([g EXCEPT !.moves[player] = NoMove], player, "end_move", NoData)

\* list.remove(x): drops the first occurrence of x, which must be present
RECURSIVE remove(_, _)
remove(s, x) ==
    IF Head(s) = x THEN Tail(s) ELSE <<Head(s)>> \o remove(Tail(s), x)

\* the loop of Game.on_hand over the tiles of the hand: each tile is removed
\* from the pool as soon as it is found; ok is FALSE at the first miss
RECURSIVE remove_hand(_, _)
remove_hand(pool, h) ==
    IF h = <<>> THEN [tiles |-> pool, ok |-> TRUE]
    ELSE IF Head(h) \notin Range(pool) THEN [tiles |-> pool, ok |-> FALSE]
    ELSE remove_hand(remove(pool, Head(h)), Tail(h))

\* sorted(list)
RECURSIVE insert(_, _)
insert(s, x) ==
    IF s = <<>> THEN <<x>>
    ELSE IF x <= Head(s) THEN <<x>> \o s
    ELSE <<Head(s)>> \o insert(Tail(s), x)

RECURSIVE sorted(_)
sorted(s) == IF s = <<>> THEN <<>> ELSE insert(sorted(Tail(s)), Head(s))

\* Game.start
start(g) ==
    LET one(gi, i) ==
            start_move(callback(gi, i, "phase_one",
                           [tiles |-> gi.initial_tiles[i], dora_ind |-> gi.dora_ind,
                            you |-> i, east |-> gi.east]),
                       i, "hand", HAND_TIME_LIMIT)
        g0 == one(g, 0)
    IN  IF g0.raised THEN g0 ELSE one(g0, 1)

\* on_hand opening the discard move for the seat that sent the second hand
on_hand_sender(g, player, h, w) ==
    IF phase(g) # 1 THEN abort(g, player, "on_hand: wrong phase")
    ELSE IF Len(h) # HAND_SIZE THEN abort(g, player, "on_hand: len != 13")
    ELSE IF g.hand[player] # None THEN abort(g, player, "on_hand: hand already sent")
    ELSE
        LET r == remove_hand(g.tiles[player], h)
            g0 == [g EXCEPT !.tiles[player] = r.tiles]
        IN  IF ~r.ok THEN abort(g0, player, "on_hand: tile not found in choices")
            ELSE
                LET g1 == [g0 EXCEPT !.hand[player] = h, !.waits[player] = w]
                    g2 == end_move(g1, player)
                    g3 == callback(g2, player, "hand", [hand |-> h])
                IN  IF g3.hand[0] # None /\ g3.hand[1] # None
                    THEN start_move(
                             callback(callback(g3, 0, "phase_two", NoData),
                                      1, "phase_two", NoData),
                             player, "discard", DISCARD_TIME_LIMIT)
                    ELSE callback(g3, player, "wait_for_phase_two", NoData)

\* Game.on_hand; w is what rules.waits(hand) returns
on_hand(g, player, h, w) ==
    IF phase(g) # 1 THEN abort(g, player, "on_hand: wrong phase")
    ELSE IF Len(h) # HAND_SIZE THEN abort(g, player, "on_hand: len != 13")
    ELSE IF g.hand[player] # None THEN abort(g, player, "on_hand: hand already sent")
    ELSE
        LET r == remove_hand(g.tiles[player], h)
            g0 == [g EXCEPT !.tiles[player] = r.tiles]
        IN  IF ~r.ok THEN abort(g0, player, "on_hand: tile not found in choices")
            ELSE
                LET g1 == [g0 EXCEPT !.hand[player] = h, !.waits[player] = w]
                    g2 == end_move(g1, player)
                    g3 == callback(g2, player, "hand", [hand |-> h])
                IN  IF g3.hand[0] # None /\ g3.hand[1] # None
                    THEN start_move(
                             callback(callback(g3, 0, "phase_two", NoData),
                                      1, "phase_two", NoData),
                             g3.east, "discard", DISCARD_TIME_LIMIT)
                    ELSE callback(g3, player, "wait_for_phase_two", NoData)

\* furiten that looks at the seat's own discards only
furiten_own(g, player) ==
    \E wait \in g.waits[player] : wait \in Range(g.discards[player])

\* Game.furiten
furiten(g, player) ==
    LET other == g.discards[1 - player]
        seen == Range(g.discards[player])
                \cup Range(SubSeq(other, 1, Len(other) - 1))
    IN  \E wait \in g.waits[player] : wait \in seen

\* Game.options
options(g, player, uradora) ==
    [fanpai_winds |-> IF player = g.east THEN "X1" ELSE "X3",
     dora_ind |-> g.dora_ind,
     uradora_ind |-> IF uradora THEN g.uradora_ind ELSE 0,
     hotei |-> \A i \in Seats : Len(g.discards[i]) = DISCARDS,
     ippatsu |-> Len(g.discards[1 - player]) = 1]

\* limit codes of the rules engine: 0 below mangan, 1 mangan .. 5 yakuman
Limits == 0..5

\* rules.BASE_POINTS, indexed by limit code
BASE_POINTS(limit) ==
    CASE limit = 1 -> 8000
      [] limit = 2 -> 12000
      [] limit = 3 -> 16000
      [] limit = 4 -> 24000
      [] limit = 5 -> 32000
      [] OTHER -> 0

\* rules.best_hand(full_hand, tile, options): the scored hand; its limit is
\* the rules engine's answer, an input of the step
best_hand(full_hand, tile, opts, limit) ==
    [tiles |-> full_hand, wait |-> tile, options |-> opts, limit |-> limit]

\* check_ron without the mangan test: any completed hand wins
check_ron_any(g, player, tile, lim, ulim) ==
    LET full_hand == sorted(g.hand[1 - player] \o <<tile>>)
        d == [player |-> 1 - player, hand |-> full_hand, tile |-> tile,
              points |-> BASE_POINTS(ulim), limit |-> ulim,
              uradora_ind |-> g.uradora_ind]
    IN  [ret |-> TRUE,
         g |-> callback(callback([g EXCEPT !.finished = TRUE], 0, "ron", d),
                        1, "ron", d)]

\* Game.check_ron; lim and ulim are the limits of the best hand without and
\* with the uradora indicator
check_ron(g, player, tile, lim, ulim) ==
    LET full_hand == sorted(g.hand[1 - player] \o <<tile>>)
        h1 == best_hand(full_hand, tile, options(g, 1 - player, FALSE), lim)
        h2 == best_hand(full_hand, tile, options(g, 1 - player, TRUE), ulim)
        d == [player |-> 1 - player, hand |-> full_hand, tile |-> tile,
              points |-> BASE_POINTS(h2.limit), limit |-> h2.limit,
              uradora_ind |-> g.uradora_ind]
    IN  IF h1.limit = 0 THEN [ret |-> FALSE, g |-> g]
        ELSE [ret |-> TRUE,
              g |-> callback(callback([g EXCEPT !.finished = TRUE], 0, "ron", d),
                             1, "ron", d)]

\* the draw test looking at the pile of seat 0 only
exhausted_first(g) == Len(g.discards[0]) = DISCARDS

\* the draw test of Game.on_discard: both piles hold DISCARDS tiles
exhausted(g) ==
    Len(g.discards[0]) = DISCARDS /\ Len(g.discards[1]) = DISCARDS

\* Game.on_discard
on_discard(g, player, tile, lim, ulim) ==
    IF phase(g) # 2 THEN abort(g, player, "on_discard: wrong phase")
    ELSE IF player_turn(g) # player THEN abort(g, player, "on_discard: not your turn")
    ELSE IF tile \notin Range(g.tiles[player])
        THEN abort(g, player, "on_discard: tile not found in choices")
    ELSE
        LET g0 == [g EXCEPT !.tiles[player] = remove(@, tile),
                            !.discards[player] = Append(@, tile)]
            g1 == end_move(g0, player)
            d == [player |-> player, tile |-> tile]
            g2 == callback(callback(g1, 0, "discarded", d), 1, "discarded", d)
            ron == IF tile \in g2.waits[1 - player] /\ ~furiten(g2, 1 - player)
                   THEN check_ron(g2, player, tile, lim, ulim)
                   ELSE [ret |-> FALSE, g |-> g2]
        IN  IF ron.ret THEN ron.g
            ELSE IF exhausted(g2)
                THEN callback(callback([g2 EXCEPT !.finished = TRUE],
                                       0, "draw", NoData), 1, "draw", NoData)
            ELSE start_move(g2, player_turn(g2), "discard", DISCARD_TIME_LIMIT)

\* beat that lets a move live through the second of its deadline
beat_late(g) ==
    LET g0 == [g EXCEPT !.t = @ + 1]
        due == {i \in Seats : g0.moves[i] # NoMove /\ g0.t > g0.moves[i].deadline}
    IN  IF 0 \in due THEN abort(g0, 0, "time limit exceeded")
        ELSE IF 1 \in due THEN abort(g0, 1, "time limit exceeded")
        ELSE g0

\* beat that looks at the deadline of seat 0 only
beat_first(g) ==
    LET g0 == [g EXCEPT !.t = @ + 1]
    IN  IF g0.moves[0] # NoMove /\ g0.t >= g0.moves[0].deadline
        THEN abort(g0, 0, "time limit exceeded")
        ELSE g0

\* beat of a stopped clock: no tick, no deadline reached
beat_stopped(g) == g

\* Game.beat
beat(g) ==
    LET g0 == [g EXCEPT !.t = @ + 1]
        due == {i \in Seats : g0.moves[i] # NoMove /\ g0.t >= g0.moves[i].deadline}
    IN  IF 0 \in due THEN abort(g0, 0, "time limit exceeded")
        ELSE IF 1 \in due THEN abort(g0, 1, "time limit exceeded")
        ELSE g0

(***************************************************************************)
(* Inputs                                                                  *)
(***************************************************************************)
\* the hands a seat may send: for every tile the hand of HAND_SIZE copies of
\* it (in the sender's pool or not), and one hand that is too short
HandInputs ==
    {[i \in 1..HAND_SIZE |-> k] : k \in Tiles} \cup {[i \in 1..(HAND_SIZE - 1) |-> 1]}

\* what rules.waits(h) may return: a set of tiles (here no tile, one tile or
\* two tiles), the same set for the same hand
WaitsInputs(player, h) ==
    IF hand[1 - player] # None /\ sorted(hand[1 - player]) = sorted(h)
    THEN {waits[1 - player]}
    ELSE {{}, {1}, {1, NKINDS}}

\* what rules.best_hand(...).limit() may return without and with the uradora
\* indicator: below mangan, mangan or yakuman, and with uradora the same
\* limit or the next (uradora only adds dora); check_ron alone consults it
LimitInputs(player, tile) ==
    IF phase(Self) = 2 /\ tile \in waits[1 - player]
    THEN {<<lim, ulim>> \in {0, 1, 5} \X Limits :
              ulim = lim \/ (lim < 5 /\ ulim = lim + 1)}
    ELSE {<<0, 0>>}

(***************************************************************************)
(* Actions: one per entry point of Game                                    *)
(***************************************************************************)
Late == IF finished THEN late + 1 ELSE late

Start ==
    /\ ~started
    /\ started' = TRUE
    /\ Store(start(Self))
    /\ UNCHANGED <<late, server_vars, rules_vars>>

OnHand(player, h) ==
    /\ started /\ ~raised
    /\ finished => late < MaxLate
    /\ \E w \in WaitsInputs(player, h) : Store(on_hand(Self, player, h, w))
    /\ late' = Late
    /\ UNCHANGED <<started, server_vars, rules_vars>>

\* on_discard(player, tile) when the rules engine answers l = <<lim, ulim>>
OnDiscardWith(player, tile, l) ==
    /\ started /\ ~raised
    /\ finished => late < MaxLate
    /\ Store(on_discard(Self, player, tile, l[1], l[2]))
    /\ late' = Late
    /\ UNCHANGED <<started, server_vars, rules_vars>>

OnDiscard(player, tile) ==
    \E l \in LimitInputs(player, tile) : OnDiscardWith(player, tile, l)

Beat ==
    /\ started /\ ~raised
    /\ finished => late < MaxLate
    /\ t < MaxT
    /\ Store(beat(Self))
    /\ late' = Late
    /\ UNCHANGED <<started, server_vars, rules_vars>>

Next ==
    \/ Start
    \/ \E player \in Seats, h \in HandInputs : OnHand(player, h)
    \/ \E player \in Seats, tile \in Tiles : OnDiscard(player, tile)
    \/ Beat

Spec == Init /\ [][Next]_vars

(***************************************************************************)
(* Vocabulary of the properties                                            *)
(***************************************************************************)
\* how often tile x occurs in the list s
Count(s, x) == Cardinality({i \in 1..Len(s) : s[i] = x})

\* the events the callback received during the step
NewMessages == SubSeq(messages', Len(messages) + 1, Len(messages'))

\* some event of the list has this type
HasType(ms, type) == \E i \in 1..Len(ms) : ms[i].type = type

\* the two events of an abort broadcast
AbortPair(culprit, description) ==
    LET d == [culprit |-> culprit, description |-> description]
    IN  <<[to |-> 0, type |-> "abort", data |-> d],
          [to |-> 1, type |-> "abort", data |-> d]>>

\* both hands are chosen
Chosen == hand[0] # None /\ hand[1] # None

\* the step appended a tile to seat p's discard pile
Accepted(p) == Len(discards'[p]) = Len(discards[p]) + 1

\* every tile discarded so far, by either seat
Discarded == Range(discards[0]) \cup Range(discards[1])

(***************************************************************************)
(* C1  Tile conservation: for each seat of a started game, the tiles left  *)
(* in the pool, the chosen hand and the discards together are the initial  *)
(* deal, as multisets, in every reachable state (rejected calls included). *)
(* Game.on_hand removes the tiles of a hand one by one before it knows     *)
(* that all of them are in the pool, so a rejected hand breaks it.         *)
(***************************************************************************)
C1_TileConservation ==
    started =>
        \A i \in Seats : \A x \in Tiles :
            Count(tiles[i], x) + Count(hand[i], x) + Count(discards[i], x)
                = Count(initial_tiles[i], x)

(***************************************************************************)
(* C2  As claimed: len(discards[0]) - len(discards[1]) is 0 or 1 whichever *)
(* seat is East.  As amended: the pile of East is as long as the pile of   *)
(* the other seat, or one tile longer.                                     *)
(***************************************************************************)
C2_SeatZeroLeads ==
    Len(discards[0]) - Len(discards[1]) \in {0, 1}

C2_EastLeads ==
    Len(discards[east]) - Len(discards[1 - east]) \in {0, 1}

\* West is seat 0 and East has discarded once more than seat 0
C2_Witness ==
    /\ east = 1
    /\ Len(discards[1]) = 1
    /\ Len(discards[0]) = 0

(***************************************************************************)
(* C3  The assertion of start_move never fails, and whenever the game is   *)
(* finished no seat has a pending move.  A hand accepted after an abort    *)
(* of phase one opens a discard move in a finished game.                   *)
(***************************************************************************)
C3_NoMoveOnceFinished ==
    /\ ~raised
    /\ finished => \A i \in Seats : moves[i] = NoMove

(***************************************************************************)
(* C4  Whenever the game is finished, exactly one terminal broadcast (ron, *)
(* draw or abort) has been made over its whole history.  A message that    *)
(* arrives after the game finished is answered by another abort.           *)
(***************************************************************************)
Terminals(to) ==
    {i \in 1..Len(messages) :
        messages[i].to = to /\ messages[i].type \in {"ron", "draw", "abort"}}

C4_OneTerminalBroadcast ==
    finished => \A i \in Seats : Cardinality(Terminals(i)) = 1

(***************************************************************************)
(* C5  Once finished, the game stays finished and no later call emits an   *)
(* event.  finished does stay true, but every rejected call broadcasts     *)
(* abort again.                                                            *)
(***************************************************************************)
C5_FinishedIsFinal ==
    [][finished => (finished' /\ messages' = messages)]_vars

(***************************************************************************)
(* C6  Turn discipline.  A discard is accepted only in phase two and only  *)
(* from the seat whose pile is shorter, East when the piles are equal:     *)
(* East makes the first discard and accepted discards alternate.  A        *)
(* discard of phase two from the other seat changes no pile and no pool    *)
(* and aborts the game with the sender as culprit.                         *)
(***************************************************************************)
\* the seat whose pile is shorter, East when the piles are equal
ShorterSeat ==
    IF Len(discards[0]) = Len(discards[1]) THEN east
    ELSE IF Len(discards[0]) < Len(discards[1]) THEN 0 ELSE 1

\* the seats of the accepted discards so far, in order
DiscardOrder ==
    LET idx == {i \in 1..Len(messages) :
                   messages[i].type = "discarded" /\ messages[i].to = 0}
    IN  [k \in 1..Cardinality(idx) |->
            messages[CHOOSE i \in idx :
                         Cardinality({j \in idx : j <= i}) = k].data.player]

C6_TurnDiscipline ==
    [][/\ \A p \in Seats :
            Accepted(p) =>
                /\ Chosen /\ ~finished
                /\ p = ShorterSeat
                /\ DiscardOrder = <<>> => p = east
                /\ DiscardOrder # <<>> => DiscardOrder[Len(DiscardOrder)] = 1 - p
       /\ \A p \in Seats, tile \in Tiles :
            (Chosen /\ ~finished /\ p # ShorterSeat /\ OnDiscard(p, tile)) =>
                /\ discards' = discards
                /\ tiles' = tiles
                /\ finished'
                /\ NewMessages = AbortPair(p, "on_discard: not your turn")
      ]_vars

\* the seat that just discarded tried again and was rejected
C6_Witness ==
    /\ Len(messages) >= 2
    /\ messages[Len(messages)].type = "abort"
    /\ messages[Len(messages)].data.description = "on_discard: not your turn"
    /\ DiscardOrder # <<>>
    /\ messages[Len(messages)].data.culprit = DiscardOrder[Len(DiscardOrder)]

(***************************************************************************)
(* C7  Timeout.  A pending move opened at t0 with limit L (HAND_TIME_LIMIT *)
(* or DISCARD_TIME_LIMIT) expires on the beat that makes                   *)
(* t = t0 + L + EXTRA_TIME: that beat broadcasts abort with the seat as    *)
(* culprit ('time limit exceeded'; seat 0 when both moves expire on it)    *)
(* and finishes the game, and a beat on which no move expires emits        *)
(* nothing.  No pending move is ever past its expiry.                      *)
(***************************************************************************)
TimeLimit(move_type) ==
    IF move_type = "hand" THEN HAND_TIME_LIMIT ELSE DISCARD_TIME_LIMIT

\* the clock value on which seat i's pending move expires
Expiry(i) == opened[i] + TimeLimit(moves[i].move_type) + EXTRA_TIME

C7_Timeout ==
    [][/\ \A i \in Seats : moves[i] # NoMove => t < Expiry(i)
       /\ \A i \in Seats : moves'[i] # NoMove => t' < Expiry(i)'
       /\ Beat =>
            LET due == {i \in Seats : moves[i] # NoMove /\ t + 1 = Expiry(i)}
            IN  IF due = {}
                THEN messages' = messages /\ finished' = finished
                ELSE /\ finished'
                     /\ NewMessages =
                            AbortPair(CHOOSE i \in due : \A j \in due : i <= j,
                                      "time limit exceeded")
      ]_vars

\* a discard move opened after the start of the game has timed out
C7_Witness ==
    /\ Chosen /\ finished
    /\ Len(messages) >= 2
    /\ messages[Len(messages)].type = "abort"
    /\ messages[Len(messages)].data.description = "time limit exceeded"
    /\ LET c == messages[Len(messages)].data.culprit
       IN  opened[c] > 0 /\ t = opened[c] + DISCARD_TIME_LIMIT + EXTRA_TIME

(***************************************************************************)
(* C8  Exhaustive draw.  The accepted discard that brings both piles to    *)
(* DISCARDS tiles without ron finishes the game and broadcasts draw to     *)
(* both seats; no start_move is emitted in that step or after a draw, and  *)
(* draw is broadcast only by a step that leaves both piles at DISCARDS.    *)
(***************************************************************************)
DrawPair ==
    <<[to |-> 0, type |-> "draw", data |-> NoData],
      [to |-> 1, type |-> "draw", data |-> NoData]>>

C8_ExhaustiveDraw ==
    [][/\ \A p \in Seats :
            (/\ Accepted(p)
             /\ Len(discards'[0]) = DISCARDS /\ Len(discards'[1]) = DISCARDS
             /\ ~HasType(NewMessages, "ron")) =>
                /\ finished'
                /\ Len(NewMessages) >= 2
                /\ SubSeq(NewMessages, Len(NewMessages) - 1, Len(NewMessages))
                       = DrawPair
                /\ ~HasType(NewMessages, "start_move")
       /\ HasType(NewMessages, "draw") =>
            /\ \E p \in Seats : Accepted(p)
            /\ Len(discards'[0]) = DISCARDS /\ Len(discards'[1]) = DISCARDS
       /\ HasType(messages, "draw") => ~HasType(NewMessages, "start_move")
      ]_vars

\* the game ended in a draw
C8_Witness ==
    /\ finished
    /\ HasType(messages, "draw")
    /\ Len(discards[0]) = DISCARDS /\ Len(discards[1]) = DISCARDS

(***************************************************************************)
(* C9  Ron condition.  An accepted discard ends the game with ron, sent to *)
(* both seats with the discarder's opponent as winner, exactly when the    *)
(* tile is in the opponent's wait set, no tile of that wait set was        *)
(* discarded before (the opponent is not furiten) and the opponent's best  *)
(* hand with the tile has limit >= 1.  After ron neither draw nor          *)
(* start_move follows; otherwise the step ends with the draw or with the   *)
(* next discard move.                                                      *)
(***************************************************************************)
\* the step broadcast ron for this winner and tile as its last two events
RonBroadcast(winner, tile) ==
    /\ Len(NewMessages) >= 2
    /\ \A k \in 0..1 :
        LET e == NewMessages[Len(NewMessages) - 1 + k]
        IN  e.to = k /\ e.type = "ron"
            /\ e.data.player = winner /\ e.data.tile = tile

C9_RonCondition ==
    [][\A p \in Seats, tile \in Tiles :
         \A l \in LimitInputs(p, tile) :
            (Accepted(p) /\ OnDiscardWith(p, tile, l)) =>
                LET wins == /\ tile \in waits[1 - p]
                            /\ waits[1 - p] \cap Discarded = {}
                            /\ l[1] >= 1
                IN  /\ wins <=> HasType(NewMessages, "ron")
                    /\ wins =>
                        /\ RonBroadcast(1 - p, tile)
                        /\ finished'
                        /\ ~HasType(NewMessages, "draw")
                        /\ ~HasType(NewMessages, "start_move")
                    /\ ~wins =>
                        IF Len(discards'[0]) = DISCARDS
                           /\ Len(discards'[1]) = DISCARDS
                        THEN finished' /\ HasType(NewMessages, "draw")
                        ELSE /\ ~finished'
                             /\ NewMessages[Len(NewMessages)].type = "start_move"
                             /\ NewMessages[Len(NewMessages)].to = 1 - p
      ]_vars

\* the game ended with ron on a discard that was not the first
C9_Witness ==
    /\ finished
    /\ HasType(messages, "ron")
    /\ Len(discards[0]) + Len(discards[1]) >= 2

(***************************************************************************)
(* C10  Furiten is permanent.  Ron for seat p is broadcast only when no    *)
(* tile of p's wait set was discarded before by either seat; when one      *)
(* was, an accepted discard of the opponent, also of a tile p waits for,   *)
(* produces no ron and no abort: the step ends with the draw or with the   *)
(* next discard move.                                                      *)
(***************************************************************************)
C10_FuritenIsPermanent ==
    [][\A p \in Seats :
         /\ (\E i \in 1..Len(NewMessages) :
                NewMessages[i].type = "ron" /\ NewMessages[i].data.player = p)
            => waits[p] \cap Discarded = {}
         /\ (Accepted(1 - p) /\ waits[p] \cap Discarded # {}) =>
                /\ ~HasType(NewMessages, "ron")
                /\ ~HasType(NewMessages, "abort")
                /\ NewMessages[Len(NewMessages)].type \in {"draw", "start_move"}
      ]_vars

\* seat p waits for two tiles; the opponent discarded one of them earlier
\* and has now discarded the other, and the game goes on
C10_Witness ==
    \E p \in Seats :
        LET pile == discards[1 - p]
        IN  /\ ~finished
            /\ Len(pile) >= 2
            /\ pile[Len(pile)] \in waits[p]
            /\ pile[1] \in waits[p]
            /\ pile[1] # pile[Len(pile)]
            /\ messages[Len(messages)].type = "start_move"
            /\ messages[Len(messages) - 1].type = "discarded"
            /\ messages[Len(messages) - 1].data.player = 1 - p

(***************************************************************************)
(* C11  Input validation.  A hand sent in the wrong phase, of the wrong    *)
(* length, a second time or with a tile that is not in the sender's pool,  *)
(* and a discard sent in the wrong phase or of a tile that is not in the   *)
(* pool, broadcast abort with the sender as culprit to both seats as the   *)
(* only events of the step, clear both pending moves and set finished.     *)
(***************************************************************************)
\* why on_hand(p, h) is rejected in this state ("" when it is accepted)
HandRejection(p, h) ==
    IF ~(hand[0] = None \/ hand[1] = None) THEN "on_hand: wrong phase"
    ELSE IF Len(h) # HAND_SIZE THEN "on_hand: len != 13"
    ELSE IF hand[p] # None THEN "on_hand: hand already sent"
    ELSE IF \E x \in Tiles : Count(h, x) > Count(tiles[p], x)
        THEN "on_hand: tile not found in choices"
    ELSE ""

\* why on_discard(p, tile) is rejected in this state, the turn apart
DiscardRejection(p, tile) ==
    IF ~Chosen \/ finished THEN "on_discard: wrong phase"
    ELSE IF p = ShorterSeat /\ Count(tiles[p], tile) = 0
        THEN "on_discard: tile not found in choices"
    ELSE ""

\* g is this state after an abort of culprit p and nothing else
Rejected(g, p, description) ==
    /\ g.messages = messages \o AbortPair(p, description)
    /\ g.finished
    /\ \A i \in Seats : g.moves[i] = NoMove
    /\ g.hand = hand /\ g.discards = discards

C11_InputValidation ==
    (started /\ ~raised) =>
        /\ \A p \in Seats, h \in HandInputs :
            HandRejection(p, h) # "" =>
                \A w \in WaitsInputs(p, h) :
                    Rejected(on_hand(Self, p, h, w), p, HandRejection(p, h))
        /\ \A p \in Seats, tile \in Tiles :
            DiscardRejection(p, tile) # "" =>
                \A l \in LimitInputs(p, tile) :
                    Rejected(on_discard(Self, p, tile, l[1], l[2]), p,
                             DiscardRejection(p, tile))

\* a seat sent its hand twice while the other seat was still choosing
C11_Witness ==
    /\ finished
    /\ Len(messages) >= 2
    /\ messages[Len(messages)].type = "abort"
    /\ messages[Len(messages)].data.description = "on_hand: hand already sent"
    /\ \E i \in Seats : hand[i] # None /\ hand[1 - i] = None
                        /\ messages[Len(messages)].data.culprit = i

(***************************************************************************)
(* The Room (src/server-py/room.py) and the GameServer with its            *)
(* SocketPlayers (src/server/server.py) around the Game.  The game of a    *)
(* room is a Game value whose callback is Room.send_to_player: the events  *)
(* a handler emits are journaled and forwarded in the order of emission.   *)
(***************************************************************************)
\* player objects that connect to the server
MaxPlayers == 3
\* the largest n_received a reconnecting player reports
MaxReceived == 2
\* players that attach to the room used on its own after it was started
MaxAttach == 1
\* rooms of the server: the one it loads when it starts and those created
\* by join_player
MaxRooms == 2
\* ticks of the server's timer
MaxServerT == 4
\* a room of the server is sent seat messages and rejoined until its game
\* has emitted this many events
MaxEvents == 5
\* every so many ticks GameServer.beat saves and evicts (30)
EVICT_PERIOD == 2
\* an unfinished game older than this is a zombie (60*60*1, which is above
\* 190 + 34 * 25 as this is above MaxT)
ZOMBIE_TIME == MaxT + 1

Players == 1..MaxPlayers

\* SocketPlayer.key of player p, and Room.keys[idx] of room r: make_key()
\* gives every object its own key; key 0 belongs to nobody
PlayerKey(p) == p
RoomKey(r, idx) == MaxPlayers + 2 * r + idx - 1
\* the keys players present: nobody's key, the keys of the players and the
\* keys of the rooms created by join_player (the players of the loaded room
\* do not come back)
Keys ==
    {0} \cup {PlayerKey(p) : p \in Players}
        \cup {RoomKey(r, idx) : r \in 2..MaxRooms, idx \in Seats}

\* the server as one value, at the start of a step: nothing sent yet
Server == [waiting_players |-> waiting_players, rooms |-> rooms,
           players |-> [p \in Players |-> [players[p] EXCEPT !.messages = <<>>]],
           server_t |-> server_t, escaped |-> escaped]

\* a player whose disconnect has been handled: the object is dropped
Gone == [room |-> 0, idx |-> 0, messages |-> <<>>, link |-> "closed"]

StoreServer(sv) ==
    /\ waiting_players' = sv.waiting_players
    /\ rooms' = sv.rooms
    /\ players' = sv.players
    /\ server_t' = sv.server_t
    /\ escaped' = sv.escaped

\* Game(callback=...): the object Game.__init__ leaves
NewGame(all_tiles, e) ==
    [east |-> e,
     initial_tiles |-> [i \in Seats |->
         SubSeq(all_tiles, i * PLAYER_TILES + 1, (i + 1) * PLAYER_TILES)],
     tiles |-> [i \in Seats |->
         SubSeq(all_tiles, i * PLAYER_TILES + 1, (i + 1) * PLAYER_TILES)],
     dora_ind |-> all_tiles[2 * PLAYER_TILES + 1],
     uradora_ind |-> all_tiles[2 * PLAYER_TILES + 2],
     hand |-> [i \in Seats |-> None],
     waits |-> [i \in Seats |-> {}],
     discards |-> [i \in Seats |-> <<>>],
     t |-> 0,
     moves |-> [i \in Seats |-> NoMove],
     finished |-> FALSE,
     messages |-> <<>>,
     raised |-> FALSE,
     opened |-> [i \in Seats |-> 0]]

\* Room.__init__
NewRoom(nicks, g) ==
    [game |-> g, nicks |-> nicks, players |-> [i \in Seats |-> 0],
     messages |-> [i \in Seats |-> <<>>], aborted |-> FALSE, listed |-> TRUE,
     late |-> 0]

\* SocketPlayer.send
send(sv, p, msg_type, msg) ==
    [sv EXCEPT !.players[p].messages = Append(@, [type |-> msg_type, data |-> msg])]

\* SocketPlayer.shutdown: the connection is closed from the server's side;
\* the player's disconnect is handled when it arrives
shutdown(sv, p) ==
    [sv EXCEPT !.players[p].link = IF @ = "open" THEN "closing" ELSE @]

\* send_to_player that buffers an event only when nobody is attached
send_to_player_buffer(sv, r, idx, msg_type, msg) ==
    IF sv.rooms[r].players[idx] # 0
    THEN send(sv, sv.rooms[r].players[idx], msg_type, msg)
    ELSE [sv EXCEPT !.rooms[r].messages[idx] =
              Append(@, [type |-> msg_type, data |-> msg])]

\* Room.send_to_player
send_to_player(sv, r, idx, msg_type, msg) ==
    LET s0 == [sv EXCEPT !.rooms[r].messages[idx] =
                   Append(@, [type |-> msg_type, data |-> msg])]
    IN  IF s0.rooms[r].players[idx] # 0
        THEN send(s0, s0.rooms[r].players[idx], msg_type, msg)
        ELSE s0

\* the callback calls of one handler of room r's game, in order
RECURSIVE deliver(_, _, _)
deliver(sv, r, ms) ==
    IF ms = <<>> THEN sv
    ELSE deliver(send_to_player(sv, r, Head(ms).to, Head(ms).type, Head(ms).data),
                 r, Tail(ms))

\* a handler of room r's game has run and left the game g, whose messages
\* list every callback call of the game so far
run_game(sv, r, g) ==
    deliver([sv EXCEPT !.rooms[r].game = g], r,
            SubSeq(g.messages, Len(sv.rooms[r].game.messages) + 1, Len(g.messages)))

\* Room.finished
Room_finished(room) == room.aborted \/ room.game.finished

\* Room.abort
Room_abort(sv, r) ==
    LET one(s, idx) == IF s.rooms[r].players[idx] # 0
                       THEN shutdown(s, s.rooms[r].players[idx]) ELSE s
    IN  one(one([sv EXCEPT !.rooms[r].aborted = TRUE], 0), 1)

\* set_room that passes the room message through the room's journal
set_room_journaled(sv, p, r, idx) ==
    send_to_player([sv EXCEPT !.players[p].room = r, !.players[p].idx = idx],
                   r, idx, "room",
                   [key |-> RoomKey(r, idx), nicks |-> sv.rooms[r].nicks,
                    you |-> idx])

\* SocketPlayer.set_room
set_room(sv, p, r, idx) ==
    send([sv EXCEPT !.players[p].room = r, !.players[p].idx = idx], p, "room",
         [key |-> RoomKey(r, idx), nicks |-> sv.rooms[r].nicks, you |-> idx])

\* the replay loop without the test for start_move and end_move
RECURSIVE replay_all(_, _, _)
replay_all(sv, p, ms) ==
    IF ms = <<>> THEN sv
    ELSE replay_all(send(sv, p, "replay", [msg |-> Head(ms)]), p, Tail(ms))

\* the loop of Room.replay_messages over the journal entries ms
RECURSIVE replay(_, _, _)
replay(sv, p, ms) ==
    IF ms = <<>> THEN sv
    ELSE IF Head(ms).type \in {"start_move", "end_move"} THEN replay(sv, p, Tail(ms))
    ELSE replay(send(sv, p, "replay", [msg |-> Head(ms)]), p, Tail(ms))

\* Room.replay_messages
replay_messages(sv, r, idx, n_received) ==
    LET journal == sv.rooms[r].messages[idx]
        s0 == replay(sv, sv.rooms[r].players[idx],
                     SubSeq(journal, n_received + 1, Len(journal)))
    IN  run_game(s0, r, send_move(s0.rooms[r].game, idx))

\* Room.add_player; the failed assert leaves the room as it was
Room_add_player(sv, r, idx, p, n_received) ==
    IF sv.rooms[r].players[idx] # 0 THEN [sv EXCEPT !.escaped = TRUE]
    ELSE replay_messages(
             set_room([sv EXCEPT !.rooms[r].players[idx] = p], p, r, idx),
             r, idx, n_received)

\* remove_player that gives the game up when a seat is detached
Room_remove_player_cancel(sv, r, idx) ==
    [sv EXCEPT !.rooms[r].players[idx] = 0, !.rooms[r].aborted = TRUE]

\* Room.remove_player
Room_remove_player(sv, r, idx) == [sv EXCEPT !.rooms[r].players[idx] = 0]

\* the handler Room.send_to_game looks up: on_hand, on_discard, or one that
\* raises (no such handler, wrong arguments)
handler(g, idx, msg) ==
    CASE msg.type = "hand" -> on_hand(g, idx, msg.hand, msg.waits)
      [] msg.type = "discard" -> on_discard(g, idx, msg.tile, msg.lim, msg.ulim)
      [] OTHER -> [g EXCEPT !.raised = TRUE]

\* send_to_game without the try: the exception of the handler leaves it
send_to_game_unguarded(sv, r, idx, msg) ==
    LET g == handler(sv.rooms[r].game, idx, msg)
    IN  IF g.raised
        THEN [run_game(sv, r, [g EXCEPT !.raised = FALSE]) EXCEPT !.escaped = TRUE]
        ELSE run_game(sv, r, g)

\* Room.send_to_game
send_to_game(sv, r, idx, msg) ==
    LET g == handler(sv.rooms[r].game, idx, msg)
        s0 == [sv EXCEPT !.rooms[r].late =
                   IF Room_finished(sv.rooms[r]) THEN @ + 1 ELSE @]
    IN  IF g.raised
        THEN Room_abort(run_game(s0, r, [g EXCEPT !.raised = FALSE]), r)
        ELSE run_game(s0, r, g)

\* Room.beat
Room_beat(sv, r) ==
    IF Room_finished(sv.rooms[r]) THEN sv
    ELSE LET g == beat(sv.rooms[r].game)
         IN  IF g.raised
             THEN Room_abort(run_game(sv, r, [g EXCEPT !.raised = FALSE]), r)
             ELSE run_game(sv, r, g)

\* GameServer.add_player
add_player(sv, p) == [sv EXCEPT !.waiting_players = @ \cup {p}]

\* Room.start_game
start_game(sv, r) == run_game(sv, r, start(sv.rooms[r].game))

\* join_player that seats the joiner first
join_player_swapped(sv, p, key, g) ==
    IF \E q \in sv.waiting_players : PlayerKey(q) = key
    THEN LET opponent == CHOOSE q \in sv.waiting_players : PlayerKey(q) = key
             r == Len(sv.rooms) + 1
             s0 == [sv EXCEPT !.waiting_players = @ \ {opponent},
                              !.rooms = Append(@, NewRoom(<<opponent, p>>, g))]
             s1 == Room_add_player(s0, r, 0, p, 0)
             s2 == Room_add_player(s1, r, 1, opponent, 0)
         IN  start_game(s2, r)
    ELSE send(sv, p, "join_failed", [description |-> "Opponent not found."])

\* GameServer.join_player; g is the Game the new Room constructs
join_player(sv, p, key, g) ==
    IF \E q \in sv.waiting_players : PlayerKey(q) = key
    THEN LET opponent == CHOOSE q \in sv.waiting_players : PlayerKey(q) = key
             r == Len(sv.rooms) + 1
             s0 == [sv EXCEPT !.waiting_players = @ \ {opponent},
                              !.rooms = Append(@, NewRoom(<<opponent, p>>, g))]
             s1 == Room_add_player(s0, r, 0, opponent, 0)
             s2 == Room_add_player(s1, r, 1, p, 0)
         IN  start_game(s2, r)
    ELSE send(sv, p, "join_failed", [description |-> "Opponent not found."])

\* GameServer.remove_player
remove_player(sv, p) ==
    IF p \in sv.waiting_players THEN [sv EXCEPT !.waiting_players = @ \ {p}]
    ELSE IF sv.players[p].room # 0
        THEN Room_remove_player(sv, sv.players[p].room, sv.players[p].idx)
    ELSE sv

\* GameServer.rejoin_player
rejoin_player(sv, p, key) ==
    LET seats == {x \in (1..Len(sv.rooms)) \X Seats :
                     sv.rooms[x[1]].listed /\ RoomKey(x[1], x[2]) = key}
    IN  IF seats = {} THEN sv
        ELSE LET x == CHOOSE x \in seats : TRUE
                 old_player == sv.rooms[x[1]].players[x[2]]
                 s0 == IF old_player # 0
                       THEN shutdown(remove_player(sv, old_player), old_player)
                       ELSE sv
             IN  Room_add_player(s0, x[1], x[2], p, 0)

\* for room in self.rooms: room.beat()
RECURSIVE beat_rooms(_, _)
beat_rooms(sv, r) ==
    IF r > Len(sv.rooms) THEN sv
    ELSE beat_rooms(IF sv.rooms[r].listed THEN Room_beat(sv, r) ELSE sv, r + 1)

\* the sweep evicting every finished room, attached seats or not
RECURSIVE sweep_rooms_attached(_, _)
sweep_rooms_attached(sv, r) ==
    IF r > Len(sv.rooms) THEN sv
    ELSE IF ~sv.rooms[r].listed THEN sweep_rooms_attached(sv, r + 1)
    ELSE LET room == sv.rooms[r]
             s0 == IF Room_finished(room)
                   THEN [sv EXCEPT !.rooms[r].listed = FALSE]
                   ELSE sv
             s1 == IF ~Room_finished(room) /\ room.game.t > ZOMBIE_TIME
                   THEN Room_abort(s0, r)
                   ELSE s0
         IN  sweep_rooms_attached(s1, r + 1)

\* the loop of GameServer.beat that evicts finished rooms nobody is attached
\* to and aborts zombie rooms
RECURSIVE sweep_rooms(_, _)
sweep_rooms(sv, r) ==
    IF r > Len(sv.rooms) THEN sv
    ELSE IF ~sv.rooms[r].listed THEN sweep_rooms(sv, r + 1)
    ELSE LET room == sv.rooms[r]
             s0 == IF room.players[0] = 0 /\ room.players[1] = 0
                      /\ Room_finished(room)
                   THEN [sv EXCEPT !.rooms[r].listed = FALSE]
                   ELSE sv
             s1 == IF ~Room_finished(room) /\ room.game.t > ZOMBIE_TIME
                   THEN Room_abort(s0, r)
                   ELSE s0
         IN  sweep_rooms(s1, r + 1)

\* GameServer.beat
Server_beat(sv) ==
    LET s0 == beat_rooms([sv EXCEPT !.server_t = @ + 1], 1)
    IN  IF s0.server_t % EVICT_PERIOD = 0 THEN sweep_rooms(s0, 1) ELSE s0

(***************************************************************************)
(* Inputs of the rooms                                                     *)
(***************************************************************************)
\* the Game a new Room constructs: the deck of DEBUG, seat 0 East
RoomGames == {NewGame(TILES, 0)}

\* what a seat sends to its room: a hand that is in seat 0's pool, one that
\* is in seat 1's pool, one that is too short (rules.waits answers with the
\* last tile), a discard (rules.best_hand answers below mangan or mangan),
\* and a message Room.send_to_game finds no working handler for
SeatMessages ==
    {[type |-> "hand", hand |-> h, waits |-> {NKINDS}] :
         h \in {<<1, 1>>, <<2, 2>>, <<1>>}}
    \cup {[type |-> "discard", tile |-> x, lim |-> l, ulim |-> l] :
              x \in {1, NKINDS}, l \in {0, 1}}
    \cup {[type |-> "crash"]}

\* what a seat sends to a room of the server: a hand, a hand that is too
\* short, a message without a working handler
ServerMessages ==
    {msg \in SeatMessages :
        \/ msg.type = "crash"
        \/ msg.type = "hand" /\ msg.hand \in {<<1, 1>>, <<1>>}}

\* the messages for which the rules engine is consulted as in game g
Sendable(g, idx, msg) ==
    (msg.type = "discard" /\ msg.lim # 0) =>
        (phase(g) = 2 /\ msg.tile \in g.waits[1 - idx])

(***************************************************************************)
(* One Room used as RoomTest uses it: created without players and started, *)
(* then add_player, remove_player, send_to_game and beat.                  *)
(***************************************************************************)
\* RoomTest.create_room(players): the room is created, the given players
\* are attached, then the game is started
create_room(sv, g, ps) ==
    LET s0 == [sv EXCEPT !.rooms = <<NewRoom(<<1, 2>>, g)>>]
        s1 == IF ps[0] # 0 THEN Room_add_player(s0, 1, 0, ps[0], 0) ELSE s0
        s2 == IF ps[1] # 0 THEN Room_add_player(s1, 1, 1, ps[1], 0) ELSE s1
    IN  start_game(s2, 1)

\* the players create_room is called with: nobody, or players 1 and 2
CreatePlayers == {[i \in Seats |-> 0], [i \in Seats |-> i + 1]}

RoomInit ==
    /\ NoGame
    /\ NoRules
    /\ \E g \in RoomGames, ps \in CreatePlayers :
        LET sv == create_room([waiting_players |-> {}, rooms |-> <<>>,
                               players |-> [p \in Players |-> NoPlayer],
                               server_t |-> 0, escaped |-> FALSE], g, ps)
        IN  /\ waiting_players = sv.waiting_players
            /\ rooms = sv.rooms
            /\ players = sv.players
            /\ server_t = sv.server_t
            /\ escaped = sv.escaped

\* room.add_player(idx, p, n_received) for a player that has just connected
RoomAddPlayer(idx, p, n_received) ==
    /\ rooms[1].players[idx] = 0
    /\ p \in 3..(2 + MaxAttach)
    /\ players[p] = NoPlayer
    /\ \A q \in 3..(p - 1) : players[q] # NoPlayer
    /\ StoreServer(Room_add_player(Server, 1, idx, p, n_received))
    /\ UNCHANGED <<game_vars, rules_vars>>

\* the attached player disconnects: room.remove_player(idx)
RoomRemovePlayer(idx) ==
    /\ rooms[1].players[idx] # 0
    /\ StoreServer([Room_remove_player(Server, 1, idx) EXCEPT
                       !.players[rooms[1].players[idx]] = Gone])
    /\ UNCHANGED <<game_vars, rules_vars>>

\* the attached player's message: room.send_to_game(idx, msg_type, **msg)
RoomSendToGame(idx, msg) ==
    /\ rooms[1].players[idx] # 0
    /\ players[rooms[1].players[idx]].link = "open"
    /\ Room_finished(rooms[1]) => rooms[1].late < MaxLate
    /\ Sendable(rooms[1].game, idx, msg)
    /\ StoreServer(send_to_game(Server, 1, idx, msg))
    /\ UNCHANGED <<game_vars, rules_vars>>

\* room.beat()
RoomBeat ==
    /\ ~Room_finished(rooms[1])
    /\ StoreServer(Room_beat(Server, 1))
    /\ UNCHANGED <<game_vars, rules_vars>>

RoomNext ==
    \/ \E idx \in Seats, p \in Players :
           \E n_received \in 0..MaxReceived :
               RoomAddPlayer(idx, p, n_received)
    \/ \E idx \in Seats : RoomRemovePlayer(idx)
    \/ \E idx \in Seats, msg \in SeatMessages : RoomSendToGame(idx, msg)
    \/ RoomBeat

RoomSpec == RoomInit /\ [][RoomNext]_vars

(***************************************************************************)
(* The GameServer: players connect, advertise a game (new_game), join an   *)
(* advertised game, rejoin a seat with its key, play and disconnect, and   *)
(* the timer calls GameServer.beat.                                        *)
(***************************************************************************)
\* GameServer.__init__: nobody is connected, and the database holds one
\* unfinished room, saved by join_player right after its game was started
LoadedRooms ==
    {create_room([waiting_players |-> {}, rooms |-> <<>>,
                  players |-> [p \in Players |-> NoPlayer],
                  server_t |-> 0, escaped |-> FALSE],
                 g, [i \in Seats |-> 0]).rooms : g \in RoomGames}

ServerInit ==
    /\ NoGame
    /\ NoRules
    /\ waiting_players = {}
    /\ rooms \in LoadedRooms
    /\ players = [p \in Players |-> NoPlayer]
    /\ server_t = 0
    /\ escaped = FALSE

\* player p has not been heard of
Fresh(p) == players[p] = NoPlayer /\ p \notin waiting_players

\* player p's connection is open; connections are numbered as they come
Connected(p) ==
    /\ players[p].link = "open"
    /\ \A q \in 1..(p - 1) : ~Fresh(q)

\* SocketPlayer.on_new_game
OnNewGame(p) ==
    /\ Connected(p)
    /\ players[p].room = 0
    /\ StoreServer(add_player(Server, p))
    /\ UNCHANGED <<game_vars, rules_vars>>

\* SocketPlayer.on_cancel_new_game
OnCancelNewGame(p) ==
    /\ Connected(p)
    /\ StoreServer(IF players[p].room # 0 THEN Server ELSE remove_player(Server, p))
    /\ UNCHANGED <<game_vars, rules_vars>>

\* SocketPlayer.on_join
OnJoin(p, key) ==
    /\ Connected(p)
    /\ players[p].room = 0
    /\ Len(rooms) < MaxRooms
    /\ \E g \in RoomGames : StoreServer(join_player(Server, p, key, g))
    /\ UNCHANGED <<game_vars, rules_vars>>

\* SocketPlayer.on_rejoin
OnRejoin(p, key) ==
    /\ Connected(p)
    /\ \A r \in 1..Len(rooms), idx \in Seats :
        RoomKey(r, idx) = key => Len(rooms[r].game.messages) < MaxEvents
    /\ StoreServer(rejoin_player(Server, p, key))
    /\ UNCHANGED <<game_vars, rules_vars>>

\* SocketPlayer.recv_disconnect: the connection of p is gone, closed by the
\* client or, after shutdown, by the server
RecvDisconnect(p) ==
    /\ players[p].link \in {"open", "closing"}
    /\ \A q \in 1..(p - 1) : ~Fresh(q)
    /\ StoreServer([remove_player(Server, p) EXCEPT !.players[p] = Gone])
    /\ UNCHANGED <<game_vars, rules_vars>>

\* SocketPlayer.on_hand / on_discard: a message for the game of p's room
OnSeatMessage(p, msg) ==
    /\ Connected(p)
    /\ players[p].room # 0
    /\ LET r == players[p].room
       IN  /\ Room_finished(rooms[r]) => rooms[r].late < MaxLate
           /\ Len(rooms[r].game.messages) < MaxEvents
           /\ Sendable(rooms[r].game, players[p].idx, msg)
           /\ StoreServer(send_to_game(Server, r, players[p].idx, msg))
    /\ UNCHANGED <<game_vars, rules_vars>>

\* the timer: GameServer.beat
ServerBeat ==
    /\ server_t < MaxServerT
    /\ StoreServer(Server_beat(Server))
    /\ UNCHANGED <<game_vars, rules_vars>>

ServerNext ==
    \/ \E p \in Players : OnNewGame(p)
    \/ \E p \in Players : OnCancelNewGame(p)
    \/ \E p \in Players, key \in Keys : OnJoin(p, key)
    \/ \E p \in Players, key \in Keys : OnRejoin(p, key)
    \/ \E p \in Players : RecvDisconnect(p)
    \/ \E p \in Players, msg \in ServerMessages : OnSeatMessage(p, msg)
    \/ ServerBeat

ServerSpec == ServerInit /\ [][ServerNext]_vars

(***************************************************************************)
(* Vocabulary of the properties of rooms                                   *)
(***************************************************************************)
\* s is the list p followed by something
IsPrefix(p, s) == Len(p) <= Len(s) /\ SubSeq(s, 1, Len(p)) = p

\* what follows the first n entries of s
Drop(s, n) == SubSeq(s, n + 1, Len(s))

\* the events of the list ms the game emitted for seat i, as journal entries
RECURSIVE ForSeat(_, _)
ForSeat(ms, i) ==
    IF ms = <<>> THEN <<>>
    ELSE IF Head(ms).to = i
        THEN <<[type |-> Head(ms).type, data |-> Head(ms).data]>>
             \o ForSeat(Tail(ms), i)
    ELSE ForSeat(Tail(ms), i)

\* the entries of journal js that are neither start_move nor end_move
RECURSIVE NoMoveInfo(_)
NoMoveInfo(js) ==
    IF js = <<>> THEN <<>>
    ELSE IF Head(js).type \in {"start_move", "end_move"} THEN NoMoveInfo(Tail(js))
    ELSE <<Head(js)>> \o NoMoveInfo(Tail(js))

\* the entries the step appended to seat i's journal in room r
NewEntries(r, i) == Drop(rooms'[r].messages[i], Len(rooms[r].messages[i]))

\* what the step sent to player p
Sent(p) == players'[p].messages

(***************************************************************************)
(* C12  Journal ordering.  The events a handler of the game emits for seat *)
(* i are appended to journal i in the order of emission, whether a player  *)
(* is attached or not; no step removes or reorders journal entries; what a *)
(* step forwards to the player attached to seat i is exactly what it       *)
(* appended to journal i, in this order, and a player attached to no seat  *)
(* receives nothing.                                                       *)
(***************************************************************************)
C12_JournalOrdering ==
    [][/\ \A i \in Seats :
            /\ rooms[1].messages[i] = ForSeat(rooms[1].game.messages, i)
            /\ rooms'[1].messages[i] = ForSeat(rooms'[1].game.messages, i)
            /\ IsPrefix(rooms[1].messages[i], rooms'[1].messages[i])
            /\ (rooms[1].players[i] # 0 /\ rooms'[1].players[i] = rooms[1].players[i])
                   => Sent(rooms[1].players[i]) = NewEntries(1, i)
       /\ \A q \in Players :
            (\A i \in Seats : rooms'[1].players[i] # q) => Sent(q) = <<>>
      ]_vars

\* a discard has just been journaled for a seat nobody is attached to, and
\* forwarded to the player of the other seat
C12_Witness ==
    \E i \in Seats :
        LET journal == rooms[1].messages[i]
            q == rooms[1].players[1 - i]
        IN  /\ rooms[1].players[i] = 0
            /\ journal # <<>>
            /\ journal[Len(journal)].type \in {"discarded", "start_move"}
            /\ q # 0
            /\ \E k \in 1..Len(players[q].messages) :
                   players[q].messages[k].type = "discarded"

(***************************************************************************)
(* C13  Reconnect replay.  room.add_player(idx, p, k) sends to p the room  *)
(* message, then the journal entries after the first k that are neither    *)
(* start_move nor end_move, each wrapped as replay and in journal order,   *)
(* then one start_move if the game has a pending move for the seat, and    *)
(* nothing else.                                                           *)
(***************************************************************************)
\* the journal entries js wrapped as replay events
Wrapped(js) == [k \in 1..Len(js) |-> [type |-> "replay", data |-> [msg |-> js[k]]]]

C13_ReconnectReplay ==
    [][\A i \in Seats, p \in Players :
         (rooms[1].players[i] = 0 /\ rooms'[1].players[i] = p) =>
            \A k \in 0..MaxReceived :
                RoomAddPlayer(i, p, k) =>
                    LET out == Sent(p)
                        replays == Wrapped(NoMoveInfo(Drop(rooms[1].messages[i], k)))
                        pending == rooms[1].game.moves[i] # NoMove
                        n == 1 + Len(replays)
                    IN  /\ Len(out) = n + (IF pending THEN 1 ELSE 0)
                        /\ out[1].type = "room"
                        /\ out[1].data.you = i
                        /\ SubSeq(out, 2, n) = replays
                        /\ pending =>
                            /\ out[n + 1].type = "start_move"
                            /\ out[n + 1].data.move_type
                                   = rooms[1].game.moves[i].move_type
      ]_vars

\* a player has just attached with n_received > 0: the first journal entry
\* was not replayed, later ones were, and the pending move was sent again
C13_Witness ==
    \E i \in Seats :
        LET p == rooms[1].players[i]
            out == players[p].messages
        IN  /\ p # 0
            /\ Len(out) >= 3
            /\ out[1].type = "room"
            /\ out[2].type = "replay"
            /\ out[2].data.msg # rooms[1].messages[i][1]
            /\ out[Len(out)].type = "start_move"

TimedOut(r, i, culprit) ==
    LET journal == rooms'[r].messages[i]
    IN  /\ journal # <<>>
        /\ journal[Len(journal)] =
               [type |-> "abort",
                data |-> [culprit |-> culprit,
                          description |-> "time limit exceeded"]]

C15_DetachIsNotCancel ==
    [][/\ \A p \in Players :
            LET r == players[p].room
                idx == players[p].idx
            IN  (/\ r # 0
                 /\ p \notin waiting_players
                 /\ rooms[r].players[idx] = p
                 /\ RecvDisconnect(p)) =>
                    /\ rooms' = [rooms EXCEPT ![r].players[idx] = 0]
                    /\ waiting_players' = waiting_players
       /\ ServerBeat =>
            \A r \in 1..Len(rooms) :
                (rooms[r].listed /\ ~Room_finished(rooms[r])) =>
                    LET g == rooms[r].game
                        due == {i \in Seats : g.moves[i] # NoMove
                                              /\ g.t + 1 >= g.moves[i].deadline}
                    IN  /\ rooms'[r].game.t = g.t + 1
                        /\ due # {} =>
                            /\ Room_finished(rooms'[r])
                            /\ \A i \in Seats :
                                TimedOut(r, i, CHOOSE c \in due :
                                                   \A d \in due : c <= d)
      ]_vars

\* a player of the joined room left, and the move of its seat timed out
C15_Witness ==
    /\ Len(rooms) = 2
    /\ rooms[2].listed
    /\ \E i \in Seats :
        LET journal == rooms[2].messages[i]
        IN  /\ rooms[2].players[i] = 0
            /\ rooms[2].players[1 - i] # 0
            /\ rooms[2].game.finished
            /\ journal[Len(journal)] =
                   [type |-> "abort",
                    data |-> [culprit |-> i,
                              description |-> "time limit exceeded"]]
            /\ players[rooms[2].players[1 - i]].messages # <<>>

(***************************************************************************)
(* C16  Rejoin.  After rejoin_player(p, key) with the key of seat idx of a *)
(* listed room, p is attached to that seat, the player attached before is  *)
(* shut down and the other seat of the room is attached as before; with a  *)
(* key of no room, no room and no advertisement changes.  The eviction     *)
(* goes through GameServer.remove_player, which looks at the evicted       *)
(* player's own room and idx and at waiting_players first: it can leave    *)
(* the seat taken, so that Room.add_player raises.                         *)
(***************************************************************************)
C16_Rejoin ==
    [][\A p \in Players, key \in Keys :
         OnRejoin(p, key) =>
            /\ \A r \in 1..Len(rooms), idx \in Seats :
                (rooms[r].listed /\ RoomKey(r, idx) = key) =>
                    /\ rooms'[r].players[idx] = p
                    /\ rooms'[r].players[1 - idx] = rooms[r].players[1 - idx]
                    /\ rooms[r].players[idx] # 0 =>
                           players'[rooms[r].players[idx]].link # "open"
            /\ (\A r \in 1..Len(rooms), idx \in Seats :
                    ~(rooms[r].listed /\ RoomKey(r, idx) = key)) =>
                   rooms' = rooms /\ waiting_players' = waiting_players
      ]_vars

(***************************************************************************)
(* C17  Join.  join_player(p, key) with the key of an advertised player    *)
(* removes exactly that player from waiting_players and appends exactly    *)
(* one room, with nicks [opponent, joiner], the opponent attached to seat  *)
(* 0 and p to seat 1; the first message each of them receives is room,     *)
(* before any event of the game.  With any other key the only effect is    *)
(* join_failed sent to p.                                                  *)
(***************************************************************************)
C17_Join ==
    [][\A p \in Players, key \in Keys :
         OnJoin(p, key) =>
            IF \E q \in waiting_players : PlayerKey(q) = key
            THEN LET opponent == CHOOSE q \in waiting_players : PlayerKey(q) = key
                     r == Len(rooms) + 1
                 IN  /\ waiting_players' = waiting_players \ {opponent}
                     /\ Len(rooms') = r
                     /\ SubSeq(rooms', 1, Len(rooms)) = rooms
                     /\ rooms'[r].listed
                     /\ rooms'[r].nicks = <<opponent, p>>
                     /\ rooms'[r].players[0] = opponent
                     /\ rooms'[r].players[1] = p
                     /\ \A q \in {opponent, p} :
                         /\ Sent(q)[1].type = "room"
                         /\ Sent(q)[1].data.nicks = <<opponent, p>>
                         /\ \E k \in 2..Len(Sent(q)) : Sent(q)[k].type = "phase_one"
                     /\ Sent(opponent)[1].data.you = 0
                     /\ Sent(p)[Len(Sent(p))].type = "start_move"
            ELSE /\ rooms' = rooms
                 /\ waiting_players' = waiting_players
                 /\ Sent(p) = <<[type |-> "join_failed",
                                 data |-> [description |-> "Opponent not found."]]>>
                 /\ \A q \in Players \ {p} : Sent(q) = <<>>
                 /\ \A q \in Players :
                     [players'[q] EXCEPT !.messages = <<>>]
                         = [players[q] EXCEPT !.messages = <<>>]
      ]_vars

\* two players have just been seated in a new room and got room, then the
\* first events of the game
C17_Witness ==
    /\ Len(rooms) = 2
    /\ rooms[2].players[0] # 0 /\ rooms[2].players[1] # 0
    /\ rooms[2].players[0] # rooms[2].players[1]
    /\ rooms[2].nicks = <<rooms[2].players[0], rooms[2].players[1]>>
    /\ \A i \in Seats :
        LET out == players[rooms[2].players[i]].messages
        IN  /\ Len(out) = 3
            /\ out[1].type = "room" /\ out[1].data.you = i
            /\ out[2].type = "phase_one"
            /\ out[3].type = "start_move"


(***************************************************************************)
(* C20  Time limit of start_move.  Every start_move event, whether the     *)
(* move has just been opened or is sent again by send_move when a player   *)
(* attaches, carries the move type of the pending move and time_limit =    *)
(* deadline - t - EXTRA_TIME at the moment it is emitted; this is          *)
(* HAND_TIME_LIMIT for a hand move just opened and DISCARD_TIME_LIMIT for  *)
(* a discard move just opened.                                             *)
(***************************************************************************)
\* the limit a move of this type is opened with
FreshLimit(move_type) ==
    IF move_type = "hand" THEN HAND_TIME_LIMIT ELSE DISCARD_TIME_LIMIT

\* the start_move event e agrees with seat i's pending move of game g
Remaining(e, g, i) ==
    /\ g.moves[i] # NoMove
    /\ e.data.move_type = g.moves[i].move_type
    /\ e.data.time_limit = g.moves[i].deadline - g.t - EXTRA_TIME

C20_TimeLimit ==
    /\ \A i \in Seats : \A k \in 1..Len(rooms[1].messages[i]) :
           LET e == rooms[1].messages[i][k]
           IN  e.type = "start_move" =>
                   /\ Remaining(e, rooms[1].game, i)
                   /\ e.data.move_type = "hand"
                   /\ e.data.time_limit = HAND_TIME_LIMIT
    /\ [][\A i \in Seats :
            LET new == NewEntries(1, i)
            IN  \A k \in 1..Len(new) :
                    new[k].type = "start_move" =>
                        /\ Remaining(new[k], rooms'[1].game, i)
                        /\ rooms'[1].game.moves[i] # rooms[1].game.moves[i] =>
                               new[k].data.time_limit
                                   = FreshLimit(new[k].data.move_type)
         ]_vars

\* a player has just attached after a tick: the pending hand move was sent
\* again with less than the whole limit
C20_Witness ==
    \E i \in Seats :
        LET p == rooms[1].players[i]
            out == players[p].messages
            g == rooms[1].game
        IN  /\ p # 0
            /\ g.t > 0
            /\ Len(out) >= 2
            /\ out[1].type = "room"
            /\ out[Len(out)].type = "start_move"
            /\ Remaining(out[Len(out)], g, i)
            /\ out[Len(out)].data.time_limit < FreshLimit(g.moves[i].move_type)

\* a discard move has just been opened and sent with the whole limit
C20_WitnessFresh ==
    \E i \in Seats :
        LET js == rooms[1].messages[i]
            g == rooms[1].game
        IN  /\ js # <<>>
            /\ js[Len(js)].type = "start_move"
            /\ js[Len(js)].data.move_type = "discard"
            /\ js[Len(js)].data.time_limit = DISCARD_TIME_LIMIT
            /\ Remaining(js[Len(js)], g, i)

(***************************************************************************)
(* rules.py: the decomposition of a hand                                   *)
(***************************************************************************)

\* the tiles the hands are drawn from, in the order of their names
\* ('M1' < 'M2' < ... < 'M9' < 'X1' < 'X5' < 'X6'); a tile is <<suit, number>>
RULE_TILES == << <<"M", 1>>, <<"M", 2>>, <<"M", 3>>, <<"M", 4>>,
                 <<"M", 9>>, <<"X", 1>>, <<"X", 5>>, <<"X", 6>> >>

\* the tiles of a complete hand: the 13 of Game.on_hand and the discard
FULL_HAND == 14

\* the sorted hand with c[k] copies of the k-th tile
RECURSIVE Spread(_, _)
Spread(c, k) ==
    IF k > Len(RULE_TILES) THEN <<>>
    ELSE [i \in 1..c[k] |-> RULE_TILES[k]] \o Spread(c, k + 1)

\* the number of tiles of the hand with these numbers of copies
RECURSIVE Total(_, _)
Total(c, k) == IF k > Len(RULE_TILES) THEN 0 ELSE c[k] + Total(c, k + 1)

\* every sorted hand of FULL_HAND tiles over RULE_TILES
RuleHands ==
    {Spread(c, 1) : c \in {c \in [1..Len(RULE_TILES) -> 0..COPIES] :
                               Total(c, 1) = FULL_HAND}}

\* find_pair, from index i on (i counts from 1)
RECURSIVE find_pair_from(_, _)
find_pair_from(ts, i) ==
    IF i > Len(ts) - 1 THEN <<>>
    ELSE IF ts[i] = ts[i + 1] /\ ~(i + 2 <= Len(ts) /\ ts[i + 1] = ts[i + 2])
         THEN << << <<"pair", ts[i]>>,
                    SubSeq(ts, 1, i - 1) \o SubSeq(ts, i + 2, Len(ts)) >> >>
              \o find_pair_from(ts, i + 1)
         ELSE find_pair_from(ts, i + 1)

find_pair(ts) == find_pair_from(ts, 1)

begin_pon(ts) ==
    IF Len(ts) >= 3 /\ ts[1] = ts[2] /\ ts[2] = ts[3]
    THEN << << <<"pon", ts[1]>>, SubSeq(ts, 4, Len(ts)) >> >>
    ELSE <<>>

begin_chi(ts) ==
    LET t1 == ts[1]
        suit == t1[1]
        n == t1[2]
        t2 == <<suit, n + 1>>
        t3 == <<suit, n + 2>>
    IN  IF suit = "X" \/ n >= 8 THEN <<>>
        ELSE IF Count(ts, t2) > 0 /\ Count(ts, t3) > 0
             THEN << << <<"chi", t1>>, remove(remove(remove(ts, t1), t2), t3) >> >>
             ELSE <<>>

\* the loops of decompose_regular: for every beginning <<group, new_tiles>>,
\* in order, the group followed by every all_groups(new_tiles)
RECURSIVE all_groups(_)
RECURSIVE for_groups(_)
for_groups(beginning_groups) ==
    IF beginning_groups = <<>> THEN <<>>
    ELSE LET group == Head(beginning_groups)[1]
             new_tiles == Head(beginning_groups)[2]
             rest == all_groups(new_tiles)
         IN  [j \in 1..Len(rest) |-> <<group>> \o rest[j]]
             \o for_groups(Tail(beginning_groups))

all_groups(ts) ==
    IF ts = <<>> THEN << <<>> >>
    ELSE for_groups(begin_pon(ts) \o begin_chi(ts))

decompose_regular(ts) == for_groups(find_pair(ts))

\* is_all_pairs: "True", "False", or "IndexError" when the generator reaches
\* the last tile of a hand of odd length
is_all_pairs(ts) ==
    LET starts == {i \in 1..Len(ts) : i % 2 = 1}
    IN  IF \E i \in starts : i + 1 <= Len(ts) /\ ts[i] # ts[i + 1] THEN "False"
        ELSE IF \E i \in starts : i + 1 > Len(ts) THEN "IndexError"
        ELSE "True"

\* is_terminal, is_honor
is_terminal(tile) == tile[1] \in {"M", "P", "S"} /\ tile[2] \in {1, 9}

is_honor(tile) == tile[1] = "X"

is_junchan_group(g) ==
    IF g[1] \in {"pon", "pair"} THEN is_terminal(g[2])
    ELSE g[2][1] \in {"M", "P", "S"} /\ g[2][2] \in {1, 7}

is_chanta_group(g) == is_junchan_group(g) \/ is_honor(g[2])

is_chi_boundary(tile, chi_tile) ==
    IF tile[1] # chi_tile[1] THEN FALSE
    ELSE tile[2] = chi_tile[2] \/ tile[2] = chi_tile[2] + 2

suits_of_tiles(ts) == {ts[i][1] : i \in 1..Len(ts)}

\* Hand.__init__; groups is <<>> where the code passes None
Hand(ts, wait, type, groups, opts) ==
    [tiles |-> ts, wait |-> wait, type |-> type, groups |-> groups,
     options |-> opts]

\* the dragons, as Hand.yaku_pinfu lists them
DRAGONS == {<<"X", 5>>, <<"X", 6>>, <<"X", 7>>}

\* Hand.yaku_pinfu
yaku_pinfu(h) ==
    IF h.type # "regular" THEN FALSE
    ELSE LET pair_tile == h.groups[1][2]
         IN  IF pair_tile[1] = "X" /\ pair_tile \in DRAGONS THEN FALSE
             ELSE IF pair_tile[1] = "X" /\ pair_tile \in Range(h.options.fanpai_winds)
                  THEN FALSE
             ELSE IF \E k \in 1..Len(h.groups) : h.groups[k][1] = "pon" THEN FALSE
             ELSE \E k \in 2..Len(h.groups) : is_chi_boundary(h.wait, h.groups[k][2])

\* Hand.yaku_iipeiko
yaku_iipeiko(h) ==
    IF h.type # "regular" THEN FALSE
    ELSE \E i \in 2..(Len(h.groups) - 1) :
             h.groups[i][1] = "chi" /\ h.groups[i] = h.groups[i + 1]

\* Hand.yaku_tanyao
yaku_tanyao(h) ==
    ~\E i \in 1..Len(h.tiles) : is_terminal(h.tiles[i]) \/ is_honor(h.tiles[i])

\* Hand.yaku_fanpai
yaku_fanpai(h) ==
    IF h.type # "regular" THEN FALSE
    ELSE IF "fanpai_winds" \notin h.options.keys THEN FALSE
    ELSE \E k \in 1..Len(h.groups) :
             h.groups[k][1] = "pon" /\ h.groups[k][2] \in Range(h.options.fanpai_winds)

\* Hand.yaku_nikoniko
yaku_nikoniko(h) == h.type = "pairs"

\* what the name `type` stands for in the generators of yaku_junchan and
\* yaku_chanta, whose loop variable is t: the builtin of Python
builtin_type == "<class 'type'>"

\* Hand.yaku_junchan
yaku_junchan(h) ==
    IF h.type # "regular" THEN FALSE
    ELSE /\ \A k \in 1..Len(h.groups) : is_junchan_group(h.groups[k])
         /\ \E k \in 1..Len(h.groups) : builtin_type = "chi"

\* Hand.yaku_chanta
yaku_chanta(h) ==
    IF h.type # "regular" THEN FALSE
    ELSE IF yaku_junchan(h) THEN FALSE
    ELSE /\ \A k \in 1..Len(h.groups) : is_junchan_group(h.groups[k])
         /\ \E k \in 1..Len(h.groups) : builtin_type = "chi"

\* Hand.yaku_honitsu
yaku_honitsu(h) ==
    Cardinality(suits_of_tiles(h.tiles)) = 2 /\ "X" \in suits_of_tiles(h.tiles)

\* Hand.yaku_chinitsu
yaku_chinitsu(h) == suits_of_tiles(h.tiles) = {"X"}

\* Hand.RECOGNIZED_YAKU
RECOGNIZED_YAKU == <<"pinfu", "iipeiko", "tanyao", "fanpai", "nikoniko",
                     "chanta", "junchan", "honitsu", "chinitsu">>

\* getattr(self, 'yaku_' + name)()
yaku(h, name) ==
    CASE name = "pinfu" -> yaku_pinfu(h)
      [] name = "iipeiko" -> yaku_iipeiko(h)
      [] name = "tanyao" -> yaku_tanyao(h)
      [] name = "fanpai" -> yaku_fanpai(h)
      [] name = "nikoniko" -> yaku_nikoniko(h)
      [] name = "chanta" -> yaku_chanta(h)
      [] name = "junchan" -> yaku_junchan(h)
      [] name = "honitsu" -> yaku_honitsu(h)
      [] name = "chinitsu" -> yaku_chinitsu(h)

\* Hand.all_yaku
all_yaku(h) == SelectSeq(RECOGNIZED_YAKU, LAMBDA name : yaku(h, name))

\* all_hands: the Hand objects yielded, in order; a hand of odd length that
\* is pairs up to its last tile ends the generator with an IndexError
all_hands(ts, wait, opts) ==
    LET regular == decompose_regular(ts)
        pairs == is_all_pairs(ts)
    IN  [j \in 1..Len(regular) |-> Hand(ts, wait, "regular", regular[j], opts)]
        \o (IF pairs = "True" THEN << Hand(ts, wait, "pairs", <<>>, opts) >>
            ELSE IF pairs = "IndexError"
                 THEN << Hand(ts, wait, "IndexError", <<>>, opts) >>
                 ELSE <<>>)

(***************************************************************************)
(* The rules engine called on one sorted hand, as HandTestCase.assertYaku  *)
(* calls it: all_hands, and all_yaku of every Hand it yields               *)
(***************************************************************************)

\* the options argument: none given (the default {}), or East as the only
\* wind of value
RuleOptions ==
    {[keys |-> {}, fanpai_winds |-> <<>>],
     [keys |-> {"fanpai_winds"}, fanpai_winds |-> << <<"X", 1>> >>]}

RulesInit ==
    /\ NoGame
    /\ NoServer
    /\ rules_tiles \in RuleHands
    /\ rules_wait \in {rules_tiles[1], rules_tiles[Len(rules_tiles)]}
    /\ rules_options \in RuleOptions
    /\ rules_hands = <<>>
    /\ rules_done = FALSE

AllHands ==
    /\ ~rules_done
    /\ rules_hands' =
           LET hands == all_hands(rules_tiles, rules_wait, rules_options)
           IN  [j \in 1..Len(hands) |->
                   [type |-> hands[j].type, groups |-> hands[j].groups,
                    yaku |-> all_yaku(hands[j])]]
    /\ rules_done' = TRUE
    /\ UNCHANGED <<rules_tiles, rules_wait, rules_options, game_vars, server_vars>>

RulesNext == AllHands

RulesSpec == RulesInit /\ [][RulesNext]_vars

(***************************************************************************)
(* Vocabulary of the properties of the rules                               *)
(***************************************************************************)

\* the position of a tile in the order of the tile names
TileIndex(tile) == CHOOSE k \in 1..Len(RULE_TILES) : RULE_TILES[k] = tile

\* the tiles of one group, as a function from tiles to numbers of copies
GroupCount(group, tile) ==
    IF group[1] = "pair" THEN (IF tile = group[2] THEN 2 ELSE 0)
    ELSE IF group[1] = "pon" THEN (IF tile = group[2] THEN 3 ELSE 0)
    ELSE IF /\ tile[1] = group[2][1]
            /\ tile[2] \in group[2][2]..(group[2][2] + 2) THEN 1 ELSE 0

RECURSIVE GroupsCount(_, _)
GroupsCount(groups, tile) ==
    IF groups = <<>> THEN 0
    ELSE GroupCount(Head(groups), tile) + GroupsCount(Tail(groups), tile)

\* a group that exists: a pair or a pon of a tile, or a chi of three
\* consecutive numbers of one suit that is not the honors
IsGroup(group) ==
    /\ group[1] \in {"pair", "pon", "chi"}
    /\ \E k \in 1..Len(RULE_TILES) : RULE_TILES[k] = group[2]
    /\ group[1] = "chi" => group[2][1] # "X" /\ group[2][2] <= 7

\* groups is a decomposition of ts: the pair first, then pons and chis,
\* and the groups use every tile of ts exactly once
IsDecomposition(groups, ts) ==
    /\ Len(groups) >= 1
    /\ groups[1][1] = "pair"
    /\ \A j \in 2..Len(groups) : groups[j][1] \in {"pon", "chi"}
    /\ \A j \in 1..Len(groups) : IsGroup(groups[j])
    /\ \A k \in 1..Len(RULE_TILES) :
           GroupsCount(groups, RULE_TILES[k]) = Count(ts, RULE_TILES[k])

\* a decomposition independently of the order of its groups
Canon(groups) ==
    [group \in {groups[j] : j \in 1..Len(groups)} |-> Count(groups, group)]

\* the tiles a chi can start at
ChiAnchors ==
    {k \in 1..Len(RULE_TILES) :
        /\ RULE_TILES[k][1] # "X"
        /\ \E k2, k3 \in 1..Len(RULE_TILES) :
               /\ RULE_TILES[k2] = <<RULE_TILES[k][1], RULE_TILES[k][2] + 1>>
               /\ RULE_TILES[k3] = <<RULE_TILES[k][1], RULE_TILES[k][2] + 2>>}

\* the decompositions of ts, found by counting: a pair tile and a number of
\* chis per anchor such that what is left of every tile is nothing or a pon
Decompositions(ts) ==
    LET chis_of(c, k) ==
            LET here == {a \in ChiAnchors :
                            /\ RULE_TILES[a][1] = RULE_TILES[k][1]
                            /\ RULE_TILES[k][2] \in
                                   RULE_TILES[a][2]..(RULE_TILES[a][2] + 2)}
                RECURSIVE sum(_)
                sum(S) == IF S = {} THEN 0
                          ELSE LET a == CHOOSE a \in S : TRUE
                               IN  c[a] + sum(S \ {a})
            IN  sum(here)
        left(p, c, k) ==
            Count(ts, RULE_TILES[k]) - (IF p = k THEN 2 ELSE 0) - chis_of(c, k)
    IN  {pc \in (1..Len(RULE_TILES)) \X [ChiAnchors -> 0..COPIES] :
            \A k \in 1..Len(RULE_TILES) : left(pc[1], pc[2], k) \in {0, 3}}

\* the same description of a list of groups that was yielded
PairAndChis(groups) ==
    << TileIndex(groups[1][2]),
       [a \in ChiAnchors |-> Count(groups, <<"chi", RULE_TILES[a]>>)] >>

\* the decompositions all_hands yielded
Regular == SelectSeq(rules_hands, LAMBDA h : h.type = "regular")

\* C18: decompose_regular yields only decompositions of the hand, yields
\* every decomposition of the hand, yields none of them twice, and lists the
\* groups after the pair in the order of their lowest tiles
C18_DecomposerExactness ==
    rules_done =>
        /\ \A j \in 1..Len(Regular) :
               IsDecomposition(Regular[j].groups, rules_tiles)
        /\ \A pc \in Decompositions(rules_tiles) :
               \E j \in 1..Len(Regular) : PairAndChis(Regular[j].groups) = pc
        /\ \A j1, j2 \in 1..Len(Regular) :
               Canon(Regular[j1].groups) = Canon(Regular[j2].groups) => j1 = j2
        /\ \A j \in 1..Len(Regular) :
               \A n \in 2..(Len(Regular[j].groups) - 1) :
                   TileIndex(Regular[j].groups[n][2])
                       <= TileIndex(Regular[j].groups[n + 1][2])


\* all_hands yielded the pairs interpretation
PairsAccepted == \E j \in 1..Len(rules_hands) : rules_hands[j].type = "pairs"

\* seven distinct pairs: no tile alone, three or four times
DistinctPairs(ts) ==
    \A k \in 1..Len(RULE_TILES) : Count(ts, RULE_TILES[k]) \in {0, 2}

\* C19: a sorted hand of 14 tiles is accepted as the pairs interpretation
\* exactly when it is seven distinct pairs; a hand with four copies of a tile
\* is not accepted
C19_SevenPairs ==
    (rules_done /\ Len(rules_tiles) = FULL_HAND) =>
        /\ PairsAccepted <=> DistinctPairs(rules_tiles)
        /\ (\E k \in 1..Len(RULE_TILES) :
                Count(rules_tiles, RULE_TILES[k]) = COPIES) => ~PairsAccepted

(***************************************************************************)
(* C21  Hand submission.  A step that accepts a hand from seat p emits to  *)
(* p end_move and then the hand back; if the other seat has not chosen, p  *)
(* then gets wait_for_phase_two and no seat has a discard move; if it is   *)
(* the second hand, phase_two goes to both seats and then a discard        *)
(* start_move to East only.  phase_two is emitted by the step that accepts *)
(* the second hand and by no other step, and is never in the log before    *)
(* both hands are set.                                                     *)
(***************************************************************************)
\* the step set the hand of seat p
HandAccepted(p) == hand[p] = None /\ hand'[p] # None

\* one event as the callback records it
Event(to, type, data) == [to |-> to, type |-> type, data |-> data]

C21_HandSubmission ==
    /\ HasType(messages, "phase_two") => Chosen
    /\ [][/\ \A p \in Seats :
               HandAccepted(p) =>
                   LET first == <<Event(p, "end_move", NoData),
                                  Event(p, "hand", [hand |-> hand'[p]])>>
                   IN  IF hand[1 - p] = None
                       THEN /\ NewMessages
                                   = first \o <<Event(p, "wait_for_phase_two", NoData)>>
                            /\ \A i \in Seats : moves'[i].move_type # "discard"
                       ELSE NewMessages
                                = first \o
                                  <<Event(0, "phase_two", NoData),
                                    Event(1, "phase_two", NoData),
                                    Event(east, "start_move",
                                          [move_type |-> "discard",
                                           time_limit |-> DISCARD_TIME_LIMIT])>>
          /\ HasType(NewMessages, "phase_two")
                 <=> (~Chosen /\ hand'[0] # None /\ hand'[1] # None)
          /\ HasType(messages', "phase_two") => (hand'[0] # None /\ hand'[1] # None)
       ]_vars

\* the seat that is not East has just sent the second hand: phase_two went to
\* both seats and the discard move to East
C21_Witness ==
    /\ Chosen /\ ~finished
    /\ Len(messages) >= 5
    /\ messages[Len(messages)]
           = Event(east, "start_move",
                   [move_type |-> "discard", time_limit |-> DISCARD_TIME_LIMIT])
    /\ messages[Len(messages) - 1] = Event(1, "phase_two", NoData)
    /\ messages[Len(messages) - 2] = Event(0, "phase_two", NoData)
    /\ messages[Len(messages) - 3].type = "hand"
    /\ messages[Len(messages) - 3].to = 1 - east
    /\ moves[1 - east] = NoMove

(***************************************************************************)
(* C22  Deadlines.  As claimed: the deadline of every newly opened move is *)
(* greater than the deadline of every move opened earlier in the game      *)
(* (here: of the moves pending when it is opened, and of the move of seat  *)
(* 0 when start opens the move of seat 1).  As amended: the game clock     *)
(* never goes back, every move is opened with deadline t + its limit +     *)
(* EXTRA_TIME, and so the deadline of a newly opened discard move is at    *)
(* least the deadline of the discard move before it, and equal to it when  *)
(* both are opened in the same second; the first discard move can have a   *)
(* smaller deadline than the hand moves.                                   *)
(***************************************************************************)
\* the step opened a move for seat i
MoveOpened(i) == moves'[i] # NoMove /\ moves'[i] # moves[i]

C22_DeadlinesIncrease ==
    [][\A i \in Seats :
          MoveOpened(i) =>
              /\ \A j \in Seats :
                     moves[j] # NoMove => moves'[i].deadline > moves[j].deadline
              /\ (i = 1 /\ MoveOpened(0)) => moves'[1].deadline > moves'[0].deadline
      ]_vars

C22_DeadlinesFollowClock ==
    [][/\ t' >= t
       /\ \A i \in Seats :
              MoveOpened(i) =>
                  /\ moves'[i].deadline
                         = t' + FreshLimit(moves'[i].move_type) + EXTRA_TIME
                  /\ moves'[i].move_type = "discard" =>
                         \A j \in Seats :
                             moves[j].move_type = "discard" =>
                                 moves'[i].deadline >= moves[j].deadline
      ]_vars

\* a discard move follows another one and was opened later: its deadline is
\* greater
C22_Witness ==
    /\ ~finished
    /\ \E i \in Seats :
           /\ moves[i].move_type = "discard"
           /\ Len(discards[1 - i]) >= 1
           /\ opened[i] > 0
           /\ moves[i].deadline = opened[i] + DISCARD_TIME_LIMIT + EXTRA_TIME

(***************************************************************************)
(* C23  Room eviction.  A room leaves GameServer.rooms only in a step of   *)
(* GameServer.beat whose new t is a multiple of the eviction period, and   *)
(* only if it is finished and no seat of it is attached; such a tick       *)
(* removes every listed room that is finished when the sweep looks at it   *)
(* and has no attached seat; a room once removed is not listed again.      *)
(***************************************************************************)
\* no player is attached to a seat of the room
Unattached(room) == \A i \in Seats : room.players[i] = 0

\* the step is a tick of the server on which the sweep runs
SweepTick == server_t' = server_t + 1 /\ server_t' % EVICT_PERIOD = 0

\* room r is finished when the sweep of this tick looks at it: its game is
\* finished after Room.beat, or the room was aborted before the tick
FinishedAtSweep(r) == rooms'[r].game.finished \/ rooms[r].aborted

C23_RoomEviction ==
    [][\A r \in 1..Len(rooms) :
          /\ (rooms[r].listed /\ ~rooms'[r].listed) =>
                 /\ SweepTick
                 /\ FinishedAtSweep(r)
                 /\ Room_finished(rooms'[r])
                 /\ Unattached(rooms[r]) /\ Unattached(rooms'[r])
          /\ (rooms[r].listed /\ SweepTick /\ FinishedAtSweep(r)
                  /\ Unattached(rooms[r])) => ~rooms'[r].listed
          /\ ~rooms[r].listed => ~rooms'[r].listed
      ]_vars

\* a room whose players were both shut down and disconnected has been
\* evicted, while a finished room with a seat attached is still listed
C23_Witness ==
    /\ \E r \in 1..Len(rooms) :
           ~rooms[r].listed /\ Room_finished(rooms[r]) /\ Unattached(rooms[r])
    /\ server_t % EVICT_PERIOD = 0
    /\ \E r \in 1..Len(rooms) :
           rooms[r].listed /\ Room_finished(rooms[r]) /\ ~Unattached(rooms[r])

(***************************************************************************)
(* Vocabulary of the yaku                                                  *)
(***************************************************************************)
\* the tiles of a group
GroupTiles(group) ==
    IF group[1] = "chi"
    THEN {<<group[2][1], group[2][2] + d>> : d \in 0..2}
    ELSE {group[2]}

\* a number tile 1 or 9; an honor tile
Terminal(tile) == tile[1] # "X" /\ tile[2] \in {1, 9}

Honor(tile) == tile[1] = "X"

\* some group of the list is a chi
HasChi(groups) == \E k \in 1..Len(groups) : groups[k][1] = "chi"

\* every group holds a terminal, no honor occurs, some group is a chi
Junchan(groups) ==
    /\ \A k \in 1..Len(groups) :
           /\ \E tile \in GroupTiles(groups[k]) : Terminal(tile)
           /\ \A tile \in GroupTiles(groups[k]) : ~Honor(tile)
    /\ HasChi(groups)

\* every group holds a terminal or an honor, some group is a chi, and it is
\* not junchan
Chanta(groups) ==
    /\ \A k \in 1..Len(groups) :
           \E tile \in GroupTiles(groups[k]) : Terminal(tile) \/ Honor(tile)
    /\ HasChi(groups)
    /\ ~Junchan(groups)

\* the dragons and the winds of value of the call
ValueTiles ==
    {<<"X", 5>>, <<"X", 6>>, <<"X", 7>>} \cup Range(rules_options.fanpai_winds)

\* the pons of value tiles among the groups, by position
ValuePons(groups) ==
    {k \in 1..Len(groups) : groups[k][1] = "pon" /\ groups[k][2] \in ValueTiles}

\* C24: all_yaku of a regular interpretation holds junchan exactly when every
\* group (the pair included) contains a terminal, no honor occurs and at
\* least one group is a chi
C24_Junchan ==
    rules_done =>
        \A j \in 1..Len(rules_hands) :
            rules_hands[j].type = "regular" =>
                ("junchan" \in Range(rules_hands[j].yaku)
                    <=> Junchan(rules_hands[j].groups))

\* C25: all_yaku of a regular interpretation holds chanta exactly when every
\* group contains a terminal or an honor, at least one group is a chi, and
\* junchan does not apply
C25_Chanta ==
    rules_done =>
        \A j \in 1..Len(rules_hands) :
            rules_hands[j].type = "regular" =>
                ("chanta" \in Range(rules_hands[j].yaku)
                    <=> Chanta(rules_hands[j].groups))

\* C26: all_yaku of a regular interpretation lists fanpai once for every pon
\* of a dragon or of a wind in fanpai_winds: twice with two such pons, not at
\* all with none
C26_Fanpai ==
    rules_done =>
        \A j \in 1..Len(rules_hands) :
            rules_hands[j].type = "regular" =>
                Count(rules_hands[j].yaku, "fanpai")
                    = Cardinality(ValuePons(rules_hands[j].groups))

(***************************************************************************)
(* C27  Stale disconnect.  A player attached to a seat stays attached to   *)
(* it in every step that is neither recv_disconnect of this player nor a   *)
(* rejoin; in particular recv_disconnect of the player that rejoin_player  *)
(* evicted from the seat leaves the new player attached.                   *)
(***************************************************************************)
\* the step is recv_disconnect of player p
Disconnects(p) == players[p].link # "closed" /\ players'[p].link = "closed"

C27_StaleDisconnect ==
    [][\A r \in 1..Len(rooms), idx \in Seats :
          LET p == rooms[r].players[idx]
          IN  (p # 0 /\ rooms'[r].players[idx] # p) =>
                  \/ Disconnects(p)
                  \/ \E q \in Players, key \in Keys : OnRejoin(q, key)
      ]_vars

(***************************************************************************)
(* C28  Pending-move shape.  In every state of a started game that is not  *)
(* finished: while some hand is unchosen the seats with a pending move are *)
(* exactly the seats without a hand, and their move type is hand; once     *)
(* both hands are chosen exactly one seat has a pending move, of type      *)
(* discard, and this seat is player_turn.                                  *)
(***************************************************************************)
\* the seats with a pending move
Pending == {i \in Seats : moves[i] # NoMove}

C28_PendingMoveShape ==
    (started /\ ~finished) =>
        IF ~Chosen
        THEN /\ Pending = {i \in Seats : hand[i] = None}
             /\ \A i \in Pending : moves[i].move_type = "hand"
        ELSE /\ Pending = {player_turn(Self)}
             /\ \A i \in Pending : moves[i].move_type = "discard"

\* after the first discard the only pending move is the discard move of the
\* seat that is not East
C28_Witness ==
    /\ started /\ ~finished /\ Chosen
    /\ Len(discards[east]) = 1 /\ Len(discards[1 - east]) = 0
    /\ Pending = {1 - east}
    /\ moves[1 - east].move_type = "discard"

(***************************************************************************)
(* C29  Clock bound.  In every state of a started game that is not         *)
(* finished, t is below the deadline of every pending move; t is therefore *)
(* at most the last second of the hand moves plus, for each of the         *)
(* 2 * DISCARDS discards, the last second of its move (189 + 34 * 24 in    *)
(* the code), and the zombie test of GameServer.beat, game.t > ZOMBIE_TIME *)
(* in an unfinished room, is false.                                        *)
(***************************************************************************)
\* the last second of an unfinished game
ClockBound ==
    (HAND_TIME_LIMIT + EXTRA_TIME - 1)
        + 2 * DISCARDS * (DISCARD_TIME_LIMIT + EXTRA_TIME - 1)

C29_ClockBound ==
    (started /\ ~finished) =>
        /\ \A i \in Seats : moves[i] # NoMove => t < moves[i].deadline
        /\ t <= ClockBound
        /\ ~(t > ZOMBIE_TIME)

\* an unfinished game in its last second: every move was answered in the
\* last second of its time, and the last discard is pending
C29_Witness ==
    /\ started /\ ~finished
    /\ t = ClockBound
    /\ Len(discards[0]) + Len(discards[1]) = 2 * DISCARDS - 1
    /\ \E i \in Seats : moves[i] # NoMove /\ moves[i].deadline = t + 1

(***************************************************************************)
(* The game under a server that keeps ticking: GameServer.beat runs every  *)
(* second (the timer of the server), and Room.beat calls Game.beat while   *)
(* the room is not finished                                                *)
(***************************************************************************)
LiveSpec == Init /\ [][Next]_vars /\ WF_vars(Beat)

(***************************************************************************)
(* C30  Termination.  If the ticks keep coming, a started game eventually  *)
(* is finished, whatever the seats send or do not send; and the two piles  *)
(* together never hold more than 2 * DISCARDS accepted discards (34).      *)
(***************************************************************************)
C30_Termination ==
    /\ [](Len(discards[0]) + Len(discards[1]) <= 2 * DISCARDS)
    /\ started ~> finished

\* a game that was played to its last discard and then ran out of time
C30_Witness ==
    /\ finished
    /\ Len(discards[0]) + Len(discards[1]) = 2 * DISCARDS - 1
    /\ t = ClockBound + 1
    /\ messages[Len(messages)].type = "abort"
    /\ messages[Len(messages)].data.description = "time limit exceeded"

\* the fields of a Game, without the list of the callback calls it made
GameState(g) == [g EXCEPT !.messages = <<>>]

\* the journal entry of the pending move of seat i in the game g
MoveEntry(g, i) ==
    [type |-> "start_move",
     data |-> [move_type |-> g.moves[i].move_type,
               time_limit |-> g.moves[i].deadline - g.t - EXTRA_TIME]]

(***************************************************************************)
(* C31  Reattach frame.  room.add_player(idx, p, k), for any k, leaves the *)
(* fields of the game as they were and appends to the journal of seat idx  *)
(* one start_move entry if the game has a pending move for the seat and    *)
(* nothing otherwise; the journal and the attachment of the other seat and *)
(* the aborted flag are unchanged; and no journal ever holds a room        *)
(* message or a replay wrapper.                                            *)
(***************************************************************************)
C31_ReattachFrame ==
    [][/\ \A i \in Seats, p \in Players, k \in 0..MaxReceived :
            RoomAddPlayer(i, p, k) =>
                /\ GameState(rooms'[1].game) = GameState(rooms[1].game)
                /\ NewEntries(1, i) =
                       IF rooms[1].game.moves[i] # NoMove
                       THEN <<MoveEntry(rooms[1].game, i)>> ELSE <<>>
                /\ IsPrefix(rooms[1].messages[i], rooms'[1].messages[i])
                /\ rooms'[1].messages[1 - i] = rooms[1].messages[1 - i]
                /\ rooms'[1].players[1 - i] = rooms[1].players[1 - i]
                /\ rooms'[1].players[i] = p
                /\ rooms'[1].aborted = rooms[1].aborted
       /\ \A i \in Seats : \A n \in 1..Len(rooms'[1].messages[i]) :
            rooms'[1].messages[i][n].type \notin {"room", "replay"}
      ]_vars

\* a player has just been attached, with k > 0, to a seat whose move is
\* pending: it was sent the room message, a replay and the move, and the
\* journal of the seat got the move once more and nothing else
C31_Witness ==
    \E i \in Seats :
        LET p == rooms[1].players[i]
            out == players[p].messages
            journal == rooms[1].messages[i]
        IN  /\ p > 2
            /\ rooms[1].game.moves[i] # NoMove
            /\ Len(out) >= 3
            /\ out[1].type = "room"
            /\ out[2].type = "replay"
            /\ out[Len(out)].type = "start_move"
            /\ Len(journal) >= 2
            /\ journal[Len(journal)] = MoveEntry(rooms[1].game, i)
            /\ \E n \in 1..(Len(journal) - 1) :
                   journal[n] = journal[Len(journal)]

\* the seats, of the rooms the server holds, player p is attached to
SeatsOf(p) ==
    {x \in (1..Len(rooms)) \X Seats :
        rooms[x[1]].listed /\ rooms[x[1]].players[x[2]] = p}

(***************************************************************************)
(* C32  Waiting and seated are exclusive.  In every state reached through  *)
(* new_game, cancel_new_game, join, rejoin and disconnect messages, no     *)
(* player is both registered in waiting_players and attached to a seat of  *)
(* a room, and no player is attached to more than one seat.                *)
(***************************************************************************)
C32_WaitingOrSeated ==
    \A p \in Players :
        /\ p \in waiting_players => SeatsOf(p) = {}
        /\ Cardinality(SeatsOf(p)) <= 1

====
